---- MODULE Spec2Model ----
(***************************************************************************)
(* Resilience runtime of the retail management system.                     *)
(*                                                                         *)
(* PaymentServiceCircuitBreaker (src/src/tactics/availability.py) is       *)
(* modelled with its callers: each caller runs execute() as three steps,   *)
(* the gate (can_execute), the wrapped operation followed by               *)
(* record_success / record_failure, and the store write                    *)
(* (_update_db_state) followed by the return.  The wrapped operation and   *)
(* the store write are the blocking points of execute, so other callers    *)
(* and the clock move between the steps.                                   *)
(*                                                                         *)
(* BaseCircuitBreaker (src/tactics/base.py) is not part of the available   *)
(* sources; its can_execute, record_success and record_failure follow      *)
(* section 4.1 of the specification.                                       *)
(*                                                                         *)
(* ThrottlingManager and OrderQueueManager (src/src/tactics/performance.py)*)
(* have their own specifications; each specification moves one component   *)
(* and leaves the others at rest.                                          *)
(*                                                                         *)
(* SpecMutex, SpecDequeue and SpecLimiters exercise several calls or       *)
(* instances at once: calls made from guarded operations, concurrent       *)
(* callers of dequeue_order, and ThrottlingManager instances built from    *)
(* shared configuration dicts.  SpecRunner is the work partition of        *)
(* scripts/performance_scenario_runner.py.                                 *)
(***************************************************************************)
EXTENDS Integers, Sequences, FiniteSets, TLC

\* ------------------------------------------------------------------ bounds
MaxTime == 4
MaxFailureCount == 3
MaxThreshold == 2
MaxTimeout == 2
NumCallers == 2
MaxRequests == 2
MaxWindow == 2
MaxItems == 2
MaxQueueTime == 1
MaxConcurrent == 2
MaxAttempts == 3
MaxTracked == 2
NumLimiters == 2
MaxAdmissions == 2
MaxRuns == 8
MaxWorkers == 5

\* ------------------------------------------------------------- value domain
\* Python None for a timestamp field
None == -1

Callers == 1..NumCallers
\* the sequential scenario: one caller, one execute at a time
SeqCallers == {1}

\* values the wrapped payment function can return
Results == {"txn_ok"}
\* errors the wrapped payment function can raise; msg is what str(e) shows
Errors == {[cls |-> "PaymentError", msg |-> "card declined"],
           [cls |-> "TimeoutError", msg |-> "gateway timeout"]}

\* str(e) of a raised error (availability.py:65)
Str(e) == e.msg

OpOutcomes == [ok : {TRUE}, val : Results] \cup [ok : {FALSE}, val : Errors]

\* db_session handed to the constructor: None, an object without .query,
\* or a usable session
DbKinds == {"none", "invalid", "session"}
\* how one store transaction of _update_db_state ends
WriteOutcomes == {"ok", "fail", "fail_rollback_fail"}

NoRecord == [present |-> FALSE, state |-> "", failure_count |-> 0,
             last_failure_time |-> None, next_attempt_time |-> None,
             failure_threshold |-> 0, timeout_duration |-> 0]

RejectReason == "Payment service temporarily unavailable"

NoReturn == [kind |-> "none", ok |-> FALSE, val |-> ""]
Returned(ok, val) == [kind |-> "returned", ok |-> ok, val |-> val]
Raised(e) == [kind |-> "raised", ok |-> FALSE, val |-> Str(e)]

NoOutcome == [ok |-> FALSE, val |-> [cls |-> "", msg |-> ""]]

VARIABLES
    now,     \* wall clock read by datetime.now(timezone.utc)
    cb,      \* in-memory breaker record of the one shared instance
    store,   \* persistent store: session kind, committed breaker row
    obs,     \* observability sink: counters, samples, events
    pc,      \* per caller: position inside execute
    loc,     \* per caller: outcome of its wrapped operation
    ret,     \* per caller: what its last execute call returned
    hist,    \* history of the calls made so far
    rl,      \* ThrottlingManager: configuration, shared request_times, lock
    rlc,     \* per caller: position inside ThrottlingManager.execute, locals
    rlret,   \* what the latest ThrottlingManager.execute call returned
    rlhist,  \* history: number of calls admitted at each clock value
    q,       \* OrderQueueManager: max_size, priority_queue, order_queue rows
    qc,      \* position of the caller inside enqueue_order, its local row id
    qret,    \* what the latest OrderQueueManager call returned
    cm,      \* ConcurrencyManager: max_concurrent, active_operations, store
    cmc,     \* per caller: position inside execute_with_lock, its locals
    cmret,   \* what the latest execute_with_lock call returned
    co,      \* position of the caller inside process_flash_sale_order
    tracking,\* progress-tracking entries that are open
    coret,   \* what the latest process_flash_sale_order call returned
    rt,      \* position of the caller inside PaymentRetryTactic.execute
    rtret,   \* what the latest PaymentRetryTactic.execute call returned
    mx,      \* ConcurrencyManager.lock: its holder; the call each call is
             \* made from
    dq,      \* per caller: position inside dequeue_order, its locals
    dqhist,  \* history: the items dequeue_order returned or dropped
    lim,     \* ThrottlingManager instances, their configuration objects
             \* and the shared states these hold
    lr       \* PerformanceScenarioRunner._run_concurrent: its locals

breakerVars == <<cb, store, obs, pc, loc, ret, hist>>
throttleVars == <<rl, rlc, rlret, rlhist>>
queueVars == <<q, qc, qret>>
concurrencyVars == <<cm, cmc, cmret>>
coordinatorVars == <<co, tracking, coret>>
retryVars == <<rt, rtret>>
mutexVars == <<mx>>
dequeueVars == <<dq, dqhist>>
limiterVars == <<lim>>
runnerVars == <<lr>>
\* the variables of the scenarios with several calls or instances at once
scenarioVars == <<mutexVars, dequeueVars, limiterVars, runnerVars>>
\* what the circuit breaker leaves alone
outsideBreaker == <<throttleVars, queueVars, concurrencyVars, coordinatorVars,
                   retryVars,
    scenarioVars>>
\* what the throttling manager leaves alone
outsideThrottle == <<breakerVars, queueVars, concurrencyVars, coordinatorVars,
                    retryVars,
    scenarioVars>>
\* what the order queue leaves alone
outsideQueue == <<breakerVars, throttleVars, concurrencyVars, coordinatorVars,
                 retryVars,
    scenarioVars>>
\* what the concurrency manager leaves alone
outsideConcurrency == <<breakerVars, throttleVars, queueVars, coordinatorVars,
                       retryVars,
    scenarioVars>>
\* what process_flash_sale_order leaves alone, the order_queue table apart
outsideCoordinator == <<breakerVars, throttleVars, concurrencyVars, retryVars,
    scenarioVars>>
\* what the retry tactic leaves alone
outsideRetry == <<breakerVars, throttleVars, queueVars, concurrencyVars,
                 coordinatorVars,
    scenarioVars>>

vars == <<now, breakerVars, throttleVars, queueVars, concurrencyVars,
         coordinatorVars, retryVars, scenarioVars>>

\* ------------------------------------------------------ enum and its value
\* CircuitBreakerState.<member>.value, stored in the breaker row
BreakerStateValue(s) ==
    CASE s = "CLOSED" -> "closed"
      [] s = "OPEN" -> "open"
      [] s = "HALF_OPEN" -> "half_open"

\* ------------------------------------------------- BaseCircuitBreaker (4.1)
\* can_execute(): CLOSED passes; OPEN rejects until now >= next_attempt_time
\* and then moves to HALF_OPEN and lets that one call through; while the
\* trial is undecided (HALF_OPEN) no other call passes.
BaseCircuitBreaker_can_execute(b, t) ==
    CASE b.state = "CLOSED" -> [allow |-> TRUE, cb |-> b]
      [] b.state = "OPEN" ->
            IF b.next_attempt_time # None /\ t >= b.next_attempt_time
            THEN [allow |-> TRUE, cb |-> [b EXCEPT !.state = "HALF_OPEN"]]
            ELSE [allow |-> FALSE, cb |-> b]
      [] b.state = "HALF_OPEN" -> [allow |-> FALSE, cb |-> b]

\* record_success(): failure_count resets to 0 and the breaker is CLOSED
BaseCircuitBreaker_record_success(b) ==
    [b EXCEPT !.state = "CLOSED", !.failure_count = 0]

\* record_failure() that opens without scheduling the next attempt
BaseCircuitBreaker_record_failure_NoAttemptTime(b, t) ==
    LET fc == b.failure_count + 1
        b1 == [b EXCEPT !.failure_count = fc, !.last_failure_time = t]
    IN IF fc >= b.failure_threshold
       THEN [b1 EXCEPT !.state = "OPEN"]
       ELSE b1

\* record_failure(): failure_count += 1, last_failure_time = now; when
\* failure_count >= failure_threshold the breaker is OPEN with
\* next_attempt_time = now + timeout_duration
BaseCircuitBreaker_record_failure(b, t) ==
    LET fc == b.failure_count + 1
        b1 == [b EXCEPT !.failure_count = fc, !.last_failure_time = t]
    IN IF fc >= b.failure_threshold
       THEN [b1 EXCEPT !.state = "OPEN",
                       !.next_attempt_time = t + b.timeout_duration]
       ELSE b1

\* -------------------------------------------- PaymentServiceCircuitBreaker
\* __init__: failure_threshold and timeout_duration come from the config,
\* outage_started_at = None; the base starts CLOSED with failure_count 0
NewBreaker(threshold, timeout) ==
    [state |-> "CLOSED", failure_count |-> 0,
     last_failure_time |-> None, next_attempt_time |-> None,
     failure_threshold |-> threshold, timeout_duration |-> timeout,
     outage_started_at |-> None]

\* what one step of execute hands to the observability sink; the sink is
\* fire-and-forget and the core keeps nothing of it, so obs holds the
\* emissions of the latest step only
NoEmission ==
    [mttr_samples |-> 0, mttr_last |-> None, recoveries |-> 0,
     recovered_events |-> 0, opened_events |-> 0, open_counter |-> 0,
     state_changes |-> 0, open_rejections |-> 0, failures_logged |-> 0]

\* record_success() without the call of super().record_success()
record_success_NoSuper(b, t) ==
    LET hasOutage == b.outage_started_at # None
        mttr_seconds == t - b.outage_started_at
        o1 == IF hasOutage /\ mttr_seconds >= 0
              THEN [NoEmission EXCEPT !.mttr_samples = @ + 1,
                                      !.mttr_last = mttr_seconds,
                                      !.recoveries = @ + 1,
                                      !.recovered_events = @ + 1]
              ELSE NoEmission
        b2 == IF hasOutage THEN [b EXCEPT !.outage_started_at = None] ELSE b
    IN [cb |-> b2, obs |-> o1]

\* record_success() that leaves outage_started_at as it is
record_success_KeepOutage(b, t) ==
    LET prev_state == b.state
        b1 == BaseCircuitBreaker_record_success(b)
        hasOutage == b1.outage_started_at # None
        mttr_seconds == t - b1.outage_started_at
        o1 == IF hasOutage /\ mttr_seconds >= 0
              THEN [NoEmission EXCEPT !.mttr_samples = @ + 1,
                                      !.mttr_last = mttr_seconds,
                                      !.recoveries = @ + 1,
                                      !.recovered_events = @ + 1]
              ELSE NoEmission
        o2 == IF prev_state # b1.state
              THEN [o1 EXCEPT !.state_changes = @ + 1]
              ELSE o1
    IN [cb |-> b1, obs |-> o2]

\* record_success(): the base transition, then the MTTR sample and the
\* recovery event when an outage is on record, then the state-change event
record_success(b, t) ==
    LET prev_state == b.state
        b1 == BaseCircuitBreaker_record_success(b)
        hasOutage == b1.outage_started_at # None
        mttr_seconds == t - b1.outage_started_at
        o1 == IF hasOutage /\ mttr_seconds >= 0
              THEN [NoEmission EXCEPT !.mttr_samples = @ + 1,
                             !.mttr_last = mttr_seconds,
                             !.recoveries = @ + 1,
                             !.recovered_events = @ + 1]
              ELSE NoEmission
        b2 == IF hasOutage THEN [b1 EXCEPT !.outage_started_at = None] ELSE b1
        o2 == IF prev_state # b2.state
              THEN [o1 EXCEPT !.state_changes = @ + 1]
              ELSE o1
    IN [cb |-> b2, obs |-> o2]

\* record_failure() that calls super().record_failure() only while CLOSED
record_failure_ClosedOnly(b, t) ==
    LET prev_state == b.state
        b1 == IF b.state = "CLOSED"
              THEN BaseCircuitBreaker_record_failure(b, t) ELSE b
        opens == b1.state = "OPEN" /\ b1.outage_started_at = None
        b2 == IF opens
              THEN [b1 EXCEPT !.outage_started_at =
                        IF b1.last_failure_time # None
                        THEN b1.last_failure_time ELSE t]
              ELSE b1
        o1 == IF opens
              THEN [NoEmission EXCEPT !.opened_events = @ + 1,
                                      !.open_counter = @ + 1]
              ELSE NoEmission
        o2 == IF prev_state # b2.state
              THEN [o1 EXCEPT !.state_changes = @ + 1]
              ELSE o1
    IN [cb |-> b2, obs |-> o2]

\* record_failure() that starts an outage whenever the breaker is OPEN
\* after the failure, also when one is on record
record_failure_AlwaysOpens(b, t) ==
    LET prev_state == b.state
        b1 == BaseCircuitBreaker_record_failure(b, t)
        opens == b1.state = "OPEN"
        b2 == IF opens
              THEN [b1 EXCEPT !.outage_started_at =
                        IF b1.last_failure_time # None
                        THEN b1.last_failure_time ELSE t]
              ELSE b1
        o1 == IF opens
              THEN [NoEmission EXCEPT !.opened_events = @ + 1,
                                      !.open_counter = @ + 1]
              ELSE NoEmission
        o2 == IF prev_state # b2.state
              THEN [o1 EXCEPT !.state_changes = @ + 1]
              ELSE o1
    IN [cb |-> b2, obs |-> o2]

\* record_failure(): the base transition, then the outage start and the
\* opened event when the breaker is OPEN with no outage on record, then the
\* state-change event
record_failure(b, t) ==
    LET prev_state == b.state
        b1 == BaseCircuitBreaker_record_failure(b, t)
        opens == b1.state = "OPEN" /\ b1.outage_started_at = None
        b2 == IF opens
              THEN [b1 EXCEPT !.outage_started_at =
                        IF b1.last_failure_time # None
                        THEN b1.last_failure_time ELSE t]
              ELSE b1
        o1 == IF opens
              THEN [NoEmission EXCEPT !.opened_events = @ + 1,
                                      !.open_counter = @ + 1]
              ELSE NoEmission
        o2 == IF prev_state # b2.state
              THEN [o1 EXCEPT !.state_changes = @ + 1]
              ELSE o1
    IN [cb |-> b2, obs |-> o2]

\* _update_db_state() whose update branch leaves next_attempt_time out
update_db_state_StaleAttempt(b, s, w) ==
    IF s.db = "none" THEN [s EXCEPT !.last_write = "skipped"]
    ELSE IF s.db = "invalid" THEN [s EXCEPT !.last_write = "skipped"]
    ELSE IF w = "ok"
    THEN [s EXCEPT
            !.rec = IF s.rec.present
                    THEN [s.rec EXCEPT
                            !.state = BreakerStateValue(b.state),
                            !.failure_count = b.failure_count,
                            !.last_failure_time = b.last_failure_time]
                    ELSE [present |-> TRUE,
                          state |-> BreakerStateValue(b.state),
                          failure_count |-> b.failure_count,
                          last_failure_time |-> b.last_failure_time,
                          next_attempt_time |-> b.next_attempt_time,
                          failure_threshold |-> b.failure_threshold,
                          timeout_duration |-> b.timeout_duration],
            !.last_write = "committed"]
    ELSE [s EXCEPT !.last_write = "failed"]

\* _update_db_state(): nothing without a usable session; otherwise the row
\* of the service is updated (state, failure_count, last_failure_time,
\* next_attempt_time) or created (also failure_threshold, timeout_duration)
\* and committed; any store error is caught and a rollback is attempted,
\* the committed row then stays as it was.  Nothing is raised.
update_db_state(b, s, w) ==
    IF s.db = "none" THEN [s EXCEPT !.last_write = "skipped"]
    ELSE IF s.db = "invalid" THEN [s EXCEPT !.last_write = "skipped"]
    ELSE IF w = "ok"
    THEN [s EXCEPT
            !.rec = IF s.rec.present
                    THEN [s.rec EXCEPT
                            !.state = BreakerStateValue(b.state),
                            !.failure_count = b.failure_count,
                            !.last_failure_time = b.last_failure_time,
                            !.next_attempt_time = b.next_attempt_time]
                    ELSE [present |-> TRUE,
                          state |-> BreakerStateValue(b.state),
                          failure_count |-> b.failure_count,
                          last_failure_time |-> b.last_failure_time,
                          next_attempt_time |-> b.next_attempt_time,
                          failure_threshold |-> b.failure_threshold,
                          timeout_duration |-> b.timeout_duration],
            !.last_write = "committed"]
    ELSE [s EXCEPT !.last_write = "failed"]

\* -------------------------------------------------------- ThrottlingManager
\* __init__: max_requests_per_second and window_size come from the config;
\* request_times and the lock live in the shared state of the config
NewLimiter(max_rps, window) ==
    [max_requests_per_second |-> max_rps, window_size |-> window,
     request_times |-> <<>>, lock |-> 0]

ThrottleIdle == [pc |-> "idle", now |-> None]
NoThrottleReturn == [caller |-> 0, ok |-> FALSE, msg |-> "", count |-> 0,
                     window |-> 0]
NoAdmissions == [t \in 0..MaxTime |-> 0]

ThrottleAtRest ==
    /\ rl = NewLimiter(1, 1)
    /\ rlc = [c \in Callers |-> ThrottleIdle]
    /\ rlret = NoThrottleReturn
    /\ rlhist = NoAdmissions

\* -------------------------------------------------------- OrderQueueManager
\* __init__: PriorityQueue(maxsize = max_size), no row written yet
NewQueue(max_size) == [max_size |-> max_size, priority_queue |-> {},
                       rows |-> <<>>]

QueueIdle == [pc |-> "idle", id |-> 0, priority |-> 0]
NoQueueReturn == [op |-> "none", ok |-> FALSE, msg |-> "", queue_id |-> 0,
                  sale_id |-> 0, priority |-> 0, attempts |-> 0]

QueueAtRest ==
    /\ q = NewQueue(1)
    /\ qc = QueueIdle
    /\ qret = NoQueueReturn

\* ------------------------------------------------------- ConcurrencyManager
\* __init__: active_operations = 0; is_postgresql is what the url of the
\* session's bind says
NewConcurrency(max_concurrent, is_postgresql) ==
    [max_concurrent |-> max_concurrent, active_operations |-> 0,
     is_postgresql |-> is_postgresql]

\* a caller outside execute_with_lock; op, err, commits and rollbacks record
\* what the call in progress has done so far
ConcurrencyIdle == [pc |-> "idle", op |-> "none", err |-> "", commits |-> 0,
                    rollbacks |-> 0]
NoConcurrencyReturn == [caller |-> 0, ok |-> FALSE, val |-> "",
                        op |-> "none", commits |-> 0, rollbacks |-> 0]

ConcurrencyAtRest ==
    /\ cm = NewConcurrency(1, FALSE)
    /\ cmc = [c \in Callers |-> ConcurrencyIdle]
    /\ cmret = NoConcurrencyReturn

\* ---------------------------------------------------- QualityTacticsManager
\* a caller outside process_flash_sale_order; the other fields record what
\* the call in progress has done so far
CoordinatorIdle == [pc |-> "idle", tracked |-> FALSE, breaker |-> "none",
                    queued |-> "none"]
NoCoordinatorReturn == [kind |-> "none", ok |-> FALSE, error |-> "",
                        tracked |-> FALSE, breaker |-> "none",
                        queued |-> "none"]

CoordinatorAtRest ==
    /\ co = CoordinatorIdle
    /\ tracking = 0
    /\ coret = NoCoordinatorReturn

\* ------------------------------------------------------- PaymentRetryTactic
\* __init__: max_attempts comes from the config; invoked, failed, result
\* and last_error record what the call in progress has done so far
NewRetry(max_attempts) ==
    [max_attempts |-> max_attempts, pc |-> "idle", invoked |-> 0,
     failed |-> 0, result |-> "", last_error |-> ""]
NoRetryReturn == [kind |-> "none", ok |-> FALSE, val |-> "", invoked |-> 0,
                  failed |-> 0]

RetryAtRest ==
    /\ rt = NewRetry(1)
    /\ rtret = NoRetryReturn

\* ------------------------------------------- calls made from guarded calls
\* ConcurrencyManager.lock is free (0); no call is made from the guarded
\* operation of another call (parent 0)
NoMutex == [lock |-> 0, parent |-> [c \in Callers |-> 0]]

MutexAtRest == mx = NoMutex

\* ------------------------------------------ concurrent callers of dequeue
NoEntry == <<0, 0, 0>>
\* a caller outside dequeue_order; ret is what its latest call returned
DequeueIdle == [pc |-> "idle", entry |-> NoEntry, ret |-> 0]
NoDeliveries == [returned |-> {}, twice |-> FALSE, dropped |-> {}]

DequeueAtRest ==
    /\ dq = [c \in Callers |-> DequeueIdle]
    /\ dqhist = NoDeliveries

\* ------------------------------------------- ThrottlingManager instances
\* the dict objects callers pass as config, and the instances built
ConfigObjects == {"a", "b"}
LimiterIds == 1..NumLimiters
\* a dict without keys; max_rps 0 and shared 0 stand for an absent key
EmptyConfig == [max_rps |-> 0, shared |-> 0]
NoInstance == [built |-> FALSE, arg |-> "", max_requests_per_second |-> 0,
               window_size |-> 0, request_times |-> 0, lock |-> 0]
\* no instance and no shared state yet; admitted is the history of the
\* admission times of each instance
NoLimiters ==
    [configs |-> [k \in ConfigObjects |-> EmptyConfig],
     instances |-> [i \in LimiterIds |-> NoInstance],
     states |-> <<>>,
     admitted |-> [i \in LimiterIds |-> <<>>]]

LimitersAtRest == lim = NoLimiters

\* ----------------------------------------------- PerformanceScenarioRunner
\* _run_concurrent is not running
RunnerIdle == [pc |-> "idle", runs |-> 0, concurrency |-> 0,
               per_worker |-> 0, remaining |-> 0, worker_id |-> 0,
               worker_specs |-> <<>>]

RunnerAtRest == lr = RunnerIdle

ScenariosAtRest ==
    /\ MutexAtRest
    /\ DequeueAtRest
    /\ LimitersAtRest
    /\ RunnerAtRest

\* the components no specification below exercises
OthersAtRest ==
    /\ ConcurrencyAtRest
    /\ CoordinatorAtRest
    /\ RetryAtRest
    /\ ScenariosAtRest

\* ------------------------------------------------------------------- Init
NewHist == [streak |-> 0, hit |-> FALSE, reset_seen |-> FALSE,
            rejected_since_open |-> 0]

Init ==
    /\ now = 0
    /\ \E threshold \in 1..MaxThreshold, timeout \in 1..MaxTimeout :
          cb = NewBreaker(threshold, timeout)
    /\ \E k \in DbKinds :
          store = [db |-> k, rec |-> NoRecord, last_write |-> "never"]
    /\ obs = NoEmission
    /\ pc = [c \in Callers |-> "idle"]
    /\ loc = [c \in Callers |-> NoOutcome]
    /\ ret = [c \in Callers |-> NoReturn]
    /\ hist = NewHist
    /\ ThrottleAtRest
    /\ QueueAtRest
    /\ OthersAtRest

\* ------------------------------------------------------------------ clock
Tick ==
    /\ now < MaxTime
    /\ now' = now + 1
    /\ UNCHANGED <<breakerVars, throttleVars, queueVars, concurrencyVars,
                   coordinatorVars, retryVars, scenarioVars>>

\* execute() that invokes payment_func without asking can_execute()
ExecuteGate_NoGate(c) ==
    /\ pc[c] = "idle"
    /\ pc' = [pc EXCEPT ![c] = "invoking"]
    /\ ret' = [ret EXCEPT ![c] = NoReturn]
    /\ obs' = NoEmission
    /\ UNCHANGED <<outsideBreaker, now, cb, store, loc, hist>>

\* -------------------------------------------------------- execute, step 1
\* lines 46-48: the gate.  A rejected call logs the metric and returns
\* (False, reason); an admitted call goes on to invoke payment_func.
ExecuteGate(c) ==
    /\ pc[c] = "idle"
    /\ LET g == BaseCircuitBreaker_can_execute(cb, now) IN
         /\ cb' = g.cb
         /\ IF g.allow
            THEN /\ pc' = [pc EXCEPT ![c] = "invoking"]
                 /\ ret' = [ret EXCEPT ![c] = NoReturn]
                 /\ obs' = NoEmission
                 /\ hist' = hist
            ELSE /\ pc' = pc
                 /\ ret' = [ret EXCEPT ![c] = Returned(FALSE, RejectReason)]
                 /\ obs' = [NoEmission EXCEPT !.open_rejections = 1]
                 /\ hist' = [hist EXCEPT !.rejected_since_open =
                                IF @ < 2 THEN @ + 1 ELSE @]
    /\ UNCHANGED <<outsideBreaker, now, store, loc>>

\* execute() whose except branch does not call record_failure()
ExecuteRecord_NoRecordFailure(c) ==
    /\ pc[c] = "invoking"
    /\ \E out \in OpOutcomes :
         /\ ~out.ok => cb.failure_count < MaxFailureCount
         /\ LET r == IF out.ok THEN record_success(cb, now)
                               ELSE [cb |-> cb, obs |-> NoEmission]
            IN /\ cb' = r.cb
               /\ obs' = r.obs
               /\ loc' = [loc EXCEPT ![c] =
                            IF out.ok
                            THEN [ok |-> TRUE,
                                  val |-> [cls |-> "", msg |-> out.val]]
                            ELSE [ok |-> FALSE, val |-> out.val]]
               /\ hist' = [hist EXCEPT
                      !.streak = IF out.ok THEN 0
                                 ELSE IF @ < MaxFailureCount THEN @ + 1 ELSE @,
                      !.hit = @ \/ (~out.ok /\
                                    hist.streak + 1 >= cb.failure_threshold),
                      !.reset_seen = @ \/ (out.ok /\ cb.state = "CLOSED"
                                           /\ cb.failure_count > 0),
                      !.rejected_since_open =
                           IF r.cb.state = "OPEN" THEN 0 ELSE @]
    /\ pc' = [pc EXCEPT ![c] = "persisting"]
    /\ UNCHANGED <<outsideBreaker, now, store, ret>>

\* -------------------------------------------------------- execute, step 2
\* lines 50-52 and 58-59: payment_func returns or raises, and the outcome
\* is recorded by record_success or record_failure.
ExecuteRecord(c) ==
    /\ pc[c] = "invoking"
    /\ \E out \in OpOutcomes :
         /\ ~out.ok => cb.failure_count < MaxFailureCount
         /\ LET r == IF out.ok THEN record_success(cb, now)
                               ELSE record_failure(cb, now)
            IN /\ cb' = r.cb
               /\ obs' = r.obs
               /\ loc' = [loc EXCEPT ![c] =
                            IF out.ok
                            THEN [ok |-> TRUE,
                                  val |-> [cls |-> "", msg |-> out.val]]
                            ELSE [ok |-> FALSE, val |-> out.val]]
               /\ hist' = [hist EXCEPT
                      !.streak = IF out.ok THEN 0
                                 ELSE IF @ < MaxFailureCount THEN @ + 1 ELSE @,
                      !.hit = @ \/ (~out.ok /\
                                    hist.streak + 1 >= cb.failure_threshold),
                      !.reset_seen = @ \/ (out.ok /\ cb.state = "CLOSED"
                                           /\ cb.failure_count > 0),
                      !.rejected_since_open =
                           IF r.cb.state = "OPEN" THEN 0 ELSE @]
    /\ pc' = [pc EXCEPT ![c] = "persisting"]
    /\ UNCHANGED <<outsideBreaker, now, store, ret>>

\* execute() that lets the error of payment_func reach the caller
ExecutePersist_Reraise(c) ==
    /\ pc[c] = "persisting"
    /\ \E w \in WriteOutcomes : store' = update_db_state(cb, store, w)
    /\ obs' = IF loc[c].ok THEN NoEmission
              ELSE [NoEmission EXCEPT !.failures_logged = 1]
    /\ ret' = [ret EXCEPT ![c] =
                 IF loc[c].ok THEN Returned(TRUE, loc[c].val.msg)
                 ELSE Raised(loc[c].val)]
    /\ loc' = [loc EXCEPT ![c] = NoOutcome]
    /\ pc' = [pc EXCEPT ![c] = "idle"]
    /\ UNCHANGED <<outsideBreaker, now, cb, hist>>

\* execute() with a store write whose error is not caught: after a
\* successful payment it lands in the except branch, which counts a failure
\* and returns the store error
ExecutePersist_Unprotected(c) ==
    /\ pc[c] = "persisting"
    /\ \E w \in WriteOutcomes :
         /\ store' = update_db_state(cb, store, w)
         /\ IF store.db = "session" /\ w # "ok" /\ loc[c].ok
            THEN /\ cb' = record_failure(cb, now).cb
                 /\ ret' = [ret EXCEPT ![c] = Returned(FALSE, "store error")]
            ELSE /\ cb' = cb
                 /\ ret' = [ret EXCEPT ![c] =
                              IF loc[c].ok
                              THEN Returned(TRUE, loc[c].val.msg)
                              ELSE Returned(FALSE, Str(loc[c].val))]
    /\ obs' = IF loc[c].ok THEN NoEmission
              ELSE [NoEmission EXCEPT !.failures_logged = 1]
    /\ loc' = [loc EXCEPT ![c] = NoOutcome]
    /\ pc' = [pc EXCEPT ![c] = "idle"]
    /\ UNCHANGED <<outsideBreaker, now, hist>>

\* -------------------------------------------------------- execute, step 3
\* lines 53-57 and 60-65: the store write, the failure metric, the return.
ExecutePersist(c) ==
    /\ pc[c] = "persisting"
    /\ \E w \in WriteOutcomes : store' = update_db_state(cb, store, w)
    /\ obs' = IF loc[c].ok THEN NoEmission
              ELSE [NoEmission EXCEPT !.failures_logged = 1]
    /\ ret' = [ret EXCEPT ![c] =
                 IF loc[c].ok THEN Returned(TRUE, loc[c].val.msg)
                 ELSE Returned(FALSE, Str(loc[c].val))]
    /\ loc' = [loc EXCEPT ![c] = NoOutcome]
    /\ pc' = [pc EXCEPT ![c] = "idle"]
    /\ UNCHANGED <<outsideBreaker, now, cb, hist>>

\* ---------------------------------------------------------- specifications
\* one caller, one execute call at a time
Next ==
    \/ Tick
    \/ \E c \in SeqCallers : ExecuteGate(c)
    \/ \E c \in SeqCallers : ExecuteRecord(c)
    \/ \E c \in SeqCallers : ExecutePersist(c)

Spec == Init /\ [][Next]_vars

\* several callers sharing the one breaker instance
NextShared ==
    \/ Tick
    \/ \E c \in Callers : ExecuteGate(c)
    \/ \E c \in Callers : ExecuteRecord(c)
    \/ \E c \in Callers : ExecutePersist(c)

SpecShared == Init /\ [][NextShared]_vars

\* ------------------------------------------------------------ properties
Rejected(c) ==
    /\ pc'[c] = "idle"
    /\ ret'[c] = Returned(FALSE, RejectReason)
    /\ loc'[c] = NoOutcome
    /\ cb' = cb

\* the steps of the one sequential caller
GateStep == pc[1] = "idle" /\ now' = now
RecordStep == pc[1] = "invoking" /\ pc'[1] = "persisting"
PersistStep == pc[1] = "persisting" /\ pc'[1] = "idle"

\* C1: with failure_threshold = N, starting CLOSED with failure_count 0,
\* fewer than N consecutive failing execute calls leave the breaker CLOSED,
\* the N-th consecutive failure moves it to OPEN, and the next execute call
\* made before timeout_duration has elapsed returns (False, reason) without
\* invoking the wrapped operation.
C1_ThresholdOpens ==
    /\ [](pc[1] # "invoking" =>
            /\ hist.streak < cb.failure_threshold => cb.state = "CLOSED"
            /\ hist.streak = cb.failure_threshold => cb.state = "OPEN")
    /\ [][(GateStep /\ cb.state = "OPEN" /\ hist.rejected_since_open = 0
             /\ now < cb.last_failure_time + cb.timeout_duration)
          => Rejected(1)]_vars

C1_Witness ==
    /\ cb.failure_threshold >= 2
    /\ hist.streak = cb.failure_threshold
    /\ cb.state = "OPEN"
    /\ hist.rejected_since_open = 1
    /\ ret[1] = Returned(FALSE, RejectReason)

\* C2: while the breaker is CLOSED every successful execute resets
\* failure_count to 0, so a sequence of calls in which no N failures occur
\* consecutively never opens a breaker with failure_threshold = N.
C2_SuccessResets ==
    /\ [](~hist.hit => cb.state = "CLOSED")
    /\ [][(RecordStep /\ cb.state = "CLOSED" /\ loc'[1].ok)
          => (cb'.failure_count = 0 /\ cb'.state = "CLOSED")]_vars

C2_Witness ==
    /\ cb.failure_threshold >= 2
    /\ ~hist.hit
    /\ hist.reset_seen
    /\ hist.streak = cb.failure_threshold - 1
    /\ cb.state = "CLOSED"
    /\ pc[1] = "idle"

\* C3: when the breaker is OPEN, every execute call made while
\* now < next_attempt_time is rejected without invoking the operation, and
\* the first execute call made once now >= next_attempt_time is let through
\* as a HALF_OPEN trial, whatever the number of calls rejected in between.
C3_OpenGate ==
    [][(GateStep /\ cb.state = "OPEN") =>
          IF now < cb.next_attempt_time
          THEN Rejected(1)
          ELSE pc'[1] = "invoking" /\ cb'.state = "HALF_OPEN"]_vars

C3_Witness ==
    /\ pc[1] = "invoking"
    /\ cb.state = "HALF_OPEN"
    /\ hist.rejected_since_open = 2

\* C4: the outcome of a HALF_OPEN trial decides the next state: success
\* makes the breaker CLOSED with failure_count = 0, failure makes it OPEN
\* again with next_attempt_time = time of that failure + timeout_duration.
C4_TrialOutcome ==
    [][(RecordStep /\ cb.state = "HALF_OPEN") =>
          IF loc'[1].ok
          THEN cb'.state = "CLOSED" /\ cb'.failure_count = 0
          ELSE /\ cb'.state = "OPEN"
               /\ cb'.next_attempt_time = now + cb.timeout_duration
               /\ cb'.next_attempt_time > cb.next_attempt_time]_vars

C4_Witness ==
    /\ pc[1] = "persisting"
    /\ ~loc[1].ok
    /\ cb.state = "OPEN"
    /\ cb.failure_count = cb.failure_threshold + 1
    /\ cb.next_attempt_time = now + cb.timeout_duration

\* C5: after the timeout of an OPEN breaker exactly one call is admitted as
\* the HALF_OPEN trial: with several callers sharing the breaker, the
\* wrapped operation is never in flight for two callers at once while the
\* breaker is HALF_OPEN.
InFlight == {c \in Callers : pc[c] = "invoking"}

C5_SingleTrialInFlight ==
    cb.state = "HALF_OPEN" => Cardinality(InFlight) <= 1

\* C6: in every reachable state of the breaker record, state = OPEN implies
\* that next_attempt_time is set and failure_count >= failure_threshold.
C6_OpenInvariant ==
    cb.state = "OPEN" =>
        /\ cb.next_attempt_time # None
        /\ cb.failure_count >= cb.failure_threshold

C6_Witness ==
    /\ cb.state = "OPEN"
    /\ cb.failure_count > cb.failure_threshold
    /\ pc[1] = "idle"

\* C7: execute never propagates an error of the wrapped operation: when the
\* operation raises, the failure is recorded and (False, str(error)) is
\* returned; when the breaker is open (False, reason) is returned; the only
\* (True, result) outcome is an invoked operation that returned normally.
ExpectedReturn(out) ==
    IF out.ok THEN Returned(TRUE, out.val.msg)
    ELSE Returned(FALSE, Str(out.val))

C7_NoErrorPropagates ==
    /\ [](ret[1].kind # "raised")
    /\ [][(RecordStep /\ ~loc'[1].ok)
          => cb'.failure_count = cb.failure_count + 1]_vars
    /\ [][(PersistStep /\ ~loc[1].ok)
          => ret'[1] = Returned(FALSE, Str(loc[1].val))]_vars
    /\ [][(GateStep /\ pc'[1] = "idle")
          => ret'[1] = Returned(FALSE, RejectReason)]_vars
    /\ [][(ret'[1].ok /\ ~ret[1].ok)
          => (PersistStep /\ loc[1].ok
              /\ ret'[1] = Returned(TRUE, loc[1].val.msg))]_vars

C7_Witness ==
    /\ pc[1] = "idle"
    /\ ret[1] = Returned(FALSE, "gateway timeout")
    /\ cb.failure_count > 0

\* C8: a persistence failure while mirroring the breaker record never
\* changes the control outcome: whether the store write succeeds, fails
\* (rollback attempted) or is skipped for lack of a store, the in-memory
\* record is left as record_success / record_failure made it and the value
\* returned is the one the operation's outcome determines.
C8_StoreFailureHarmless ==
    [][PersistStep =>
          /\ cb' = cb
          /\ ret'[1] = ExpectedReturn(loc[1])
          /\ store'.last_write \in {"committed", "failed", "skipped"}]_vars

C8_Witness ==
    /\ pc[1] = "idle"
    /\ store.last_write = "failed"
    /\ ret[1] = Returned(TRUE, "txn_ok")
    /\ cb.state = "CLOSED"
    /\ cb.failure_count = 0

\* C9: after an execute call that changed the breaker record and whose
\* store write succeeded, the persisted row has the same state,
\* failure_count, last_failure_time and next_attempt_time as the in-memory
\* record.
C9_RowMirrorsRecord ==
    (pc[1] = "idle" /\ store.last_write = "committed") =>
        /\ store.rec.present
        /\ store.rec.state = BreakerStateValue(cb.state)
        /\ store.rec.failure_count = cb.failure_count
        /\ store.rec.last_failure_time = cb.last_failure_time
        /\ store.rec.next_attempt_time = cb.next_attempt_time

C9_Witness ==
    /\ pc[1] = "idle"
    /\ store.last_write = "committed"
    /\ store.rec.state = "open"
    /\ store.rec.failure_count > cb.failure_threshold
    /\ store.rec.next_attempt_time = cb.last_failure_time + cb.timeout_duration

\* C10: a success recorded while outage_started_at is set emits one MTTR
\* sample equal to now - outage_started_at and one recovery event and then
\* clears outage_started_at; a success recorded while it is not set emits
\* neither.
C10_RecoveryEmission ==
    [][(RecordStep /\ loc'[1].ok) =>
          IF cb.outage_started_at # None
          THEN /\ obs'.mttr_samples = 1
               /\ obs'.mttr_last = now - cb.outage_started_at
               /\ obs'.recoveries = 1
               /\ obs'.recovered_events = 1
               /\ cb'.outage_started_at = None
          ELSE /\ obs'.mttr_samples = 0
               /\ obs'.recoveries = 0
               /\ obs'.recovered_events = 0
               /\ cb'.outage_started_at = None]_vars

C10_Witness ==
    /\ pc[1] = "persisting"
    /\ loc[1].ok
    /\ obs.mttr_samples = 1
    /\ obs.mttr_last >= 1
    /\ obs.recovered_events = 1
    /\ cb.outage_started_at = None

\* C38: for sequential callers the outage bookkeeping alternates.
\* outage_started_at is unset while the breaker is CLOSED and set while it
\* is OPEN.  A circuit-opened event is emitted exactly by the steps that
\* take outage_started_at from unset to set, with the breaker OPEN after
\* them, and a recovery event exactly by the steps that take it from set to
\* unset; a step that leaves it set leaves its value alone and emits no
\* opened event (a failed HALF_OPEN trial).  So opened events minus
\* recovery events is 1 while an outage is on record and 0 otherwise.
C38_OutageAlternates ==
    /\ [](/\ cb.state = "CLOSED" => cb.outage_started_at = None
          /\ cb.state = "OPEN" => cb.outage_started_at # None)
    /\ [][/\ ~RecordStep =>
                /\ cb'.outage_started_at = cb.outage_started_at
          /\ RecordStep =>
                /\ obs'.opened_events =
                      (IF cb.outage_started_at = None
                          /\ cb'.outage_started_at # None THEN 1 ELSE 0)
                /\ obs'.open_counter = obs'.opened_events
                /\ obs'.recovered_events =
                      (IF cb.outage_started_at # None
                          /\ cb'.outage_started_at = None THEN 1 ELSE 0)
                /\ obs'.recoveries = obs'.recovered_events
                /\ obs'.opened_events = 1 => cb'.state = "OPEN"
                /\ (cb.outage_started_at # None
                      /\ cb'.outage_started_at # None) =>
                         cb'.outage_started_at = cb.outage_started_at
       ]_vars

\* a HALF_OPEN trial has just failed: the breaker is OPEN again, no opened
\* event was emitted and the outage still starts at the first opening
C38_Witness ==
    /\ pc[1] = "persisting"
    /\ ~loc[1].ok
    /\ cb.state = "OPEN"
    /\ obs.state_changes = 1
    /\ obs.opened_events = 0
    /\ cb.outage_started_at # None
    /\ cb.last_failure_time > cb.outage_started_at

\* ======================================================= ThrottlingManager
\* the breaker at rest while another component is exercised
BreakerAtRest ==
    /\ cb = NewBreaker(1, 1)
    /\ store = [db |-> "none", rec |-> NoRecord, last_write |-> "never"]
    /\ obs = NoEmission
    /\ pc = [c \in Callers |-> "idle"]
    /\ loc = [c \in Callers |-> NoOutcome]
    /\ ret = [c \in Callers |-> NoReturn]
    /\ hist = NewHist

InitThrottle ==
    /\ now = 0
    /\ BreakerAtRest
    /\ QueueAtRest
    /\ OthersAtRest
    /\ \E max_rps \in 1..MaxRequests, window \in 1..MaxWindow :
          rl = NewLimiter(max_rps, window)
    /\ rlc = [c \in Callers |-> ThrottleIdle]
    /\ rlret = NoThrottleReturn
    /\ rlhist = NoAdmissions

\* the timestamps of request_times that line 43 keeps at time t
InWindow(times, t, window) ==
    SelectSeq(times, LAMBDA req_time : req_time > t - window)

\* execute() that enters its body without taking the lock
ThrottleEnter_NoLock(c) ==
    /\ rlc[c].pc = "idle"
    /\ rl' = [rl EXCEPT !.lock = c]
    /\ rlc' = [rlc EXCEPT ![c] = [pc |-> "pruning", now |-> now]]
    /\ UNCHANGED <<now, rlret, rlhist, outsideThrottle>>

\* lines 38-39: `with self.lock` is entered and the clock is read
ThrottleEnter(c) ==
    /\ rlc[c].pc = "idle"
    /\ rl.lock = 0
    /\ rl' = [rl EXCEPT !.lock = c]
    /\ rlc' = [rlc EXCEPT ![c] = [pc |-> "pruning", now |-> now]]
    /\ UNCHANGED <<now, rlret, rlhist, outsideThrottle>>

\* pruning that keeps the timestamps equal to now - window_size
ThrottlePrune_KeepBoundary(c) ==
    /\ rlc[c].pc = "pruning"
    /\ rl' = [rl EXCEPT !.request_times =
                SelectSeq(rl.request_times,
                          LAMBDA req_time :
                              req_time >= rlc[c].now - rl.window_size)]
    /\ rlc' = [rlc EXCEPT ![c].pc = "checking"]
    /\ UNCHANGED <<now, rlret, rlhist, outsideThrottle>>

\* lines 42-43: the timestamps outside the window are removed
ThrottlePrune(c) ==
    /\ rlc[c].pc = "pruning"
    /\ rl' = [rl EXCEPT !.request_times =
                InWindow(rl.request_times, rlc[c].now, rl.window_size)]
    /\ rlc' = [rlc EXCEPT ![c].pc = "checking"]
    /\ UNCHANGED <<now, rlret, rlhist, outsideThrottle>>

\* the limit test with <= in place of <
ThrottleCheck_OffByOne(c) ==
    /\ rlc[c].pc = "checking"
    /\ rlc' = [rlc EXCEPT ![c].pc =
                 IF Len(rl.request_times) <= rl.max_requests_per_second
                 THEN "allowing" ELSE "rejecting"]
    /\ UNCHANGED <<now, rl, rlret, rlhist, outsideThrottle>>

\* line 46: the limit test
ThrottleCheck(c) ==
    /\ rlc[c].pc = "checking"
    /\ rlc' = [rlc EXCEPT ![c].pc =
                 IF Len(rl.request_times) < rl.max_requests_per_second
                 THEN "allowing" ELSE "rejecting"]
    /\ UNCHANGED <<now, rl, rlret, rlhist, outsideThrottle>>

\* a rejection that records the rejected request as well
ThrottleReturn_CountsRejected(c) ==
    /\ rlc[c].pc \in {"allowing", "rejecting"}
    /\ rl' = [rl EXCEPT !.request_times = Append(@, rlc[c].now),
                        !.lock = 0]
    /\ rlret' = IF rlc[c].pc = "allowing"
                THEN [caller |-> c, ok |-> TRUE, msg |-> "Request allowed",
                      count |-> 0, window |-> 0]
                ELSE [caller |-> c, ok |-> FALSE,
                      msg |-> "Request throttled",
                      count |-> Len(rl.request_times),
                      window |-> rl.window_size]
    /\ rlhist' = IF rlc[c].pc = "allowing"
                 THEN [rlhist EXCEPT ![rlc[c].now] = @ + 1] ELSE rlhist
    /\ rlc' = [rlc EXCEPT ![c] = ThrottleIdle]
    /\ UNCHANGED <<now, outsideThrottle>>

\* lines 47-58: an allowed request appends its timestamp, a throttled one
\* reports the number of requests in the window; the lock is released
ThrottleReturn(c) ==
    /\ rlc[c].pc \in {"allowing", "rejecting"}
    /\ IF rlc[c].pc = "allowing"
       THEN /\ rl' = [rl EXCEPT !.request_times = Append(@, rlc[c].now),
                                !.lock = 0]
            /\ rlret' = [caller |-> c, ok |-> TRUE, msg |-> "Request allowed",
                         count |-> 0, window |-> 0]
            /\ rlhist' = [rlhist EXCEPT ![rlc[c].now] = @ + 1]
       ELSE /\ rl' = [rl EXCEPT !.lock = 0]
            /\ rlret' = [caller |-> c, ok |-> FALSE,
                         msg |-> "Request throttled",
                         count |-> Len(rl.request_times),
                         window |-> rl.window_size]
            /\ rlhist' = rlhist
    /\ rlc' = [rlc EXCEPT ![c] = ThrottleIdle]
    /\ UNCHANGED <<now, outsideThrottle>>

\* concurrent callers of one limiter instance
NextThrottle ==
    \/ Tick
    \/ \E c \in Callers : ThrottleEnter(c)
    \/ \E c \in Callers : ThrottlePrune(c)
    \/ \E c \in Callers : ThrottleCheck(c)
    \/ \E c \in Callers : ThrottleReturn(c)

SpecThrottle == InitThrottle /\ [][NextThrottle]_vars

\* ---------------------------------------------- properties of the limiter
RECURSIVE SumAdmitted(_)
SumAdmitted(T) ==
    IF T = {} THEN 0
    ELSE LET t == CHOOSE u \in T : TRUE
         IN rlhist[t] + SumAdmitted(T \ {t})

\* calls admitted with a timestamp in the window (t - window, t]
AdmittedIn(t, window) ==
    SumAdmitted({u \in 0..MaxTime : u > t - window /\ u <= t})

\* number of entries of request_times equal to t
CountOf(times, t) ==
    Cardinality({k \in 1..Len(times) : times[k] = t})

ThrottlePruneStep(c) == rlc[c].pc = "pruning" /\ rlc'[c].pc = "checking"
ThrottleReturnStep(c) ==
    rlc[c].pc \in {"allowing", "rejecting"} /\ rlc'[c].pc = "idle"
ThrottleRejectStep(c) == rlc[c].pc = "rejecting" /\ rlc'[c].pc = "idle"

\* C11: with max_requests_per_window = M and window_size = W, starting from
\* an empty window, M calls issued within one window are all admitted, the
\* (M+1)-th call within that window is rejected, and a call issued more
\* than W after the last admitted one is admitted again.
C11_WindowLimit ==
    [][\A c \in Callers : ThrottleReturnStep(c) =>
          LET t == rlc[c].now
              n == AdmittedIn(t, rl.window_size)
          IN /\ rlret'.caller = c
             /\ n < rl.max_requests_per_second => rlret'.ok
             /\ n >= rl.max_requests_per_second => ~rlret'.ok
             /\ (\A u \in 0..MaxTime :
                    rlhist[u] > 0 => t > u + rl.window_size) => rlret'.ok]_vars

C11_Witness ==
    /\ rl.max_requests_per_second >= 2
    /\ now > rl.window_size
    /\ rlhist[0] = rl.max_requests_per_second
    /\ rlhist[now] = rl.max_requests_per_second
    /\ ~rlret.ok
    /\ rlret.msg = "Request throttled"
    /\ rl.lock = 0

\* C12: under any interleaving of concurrent calls on one limiter instance
\* the window accounting is exact: request_times holds exactly one
\* timestamp per admitted call that is still inside the window, and the
\* number of admitted calls whose timestamps lie within one window
\* (t - window_size, t] never exceeds max_requests_per_window.
C12_ExactAccounting ==
    /\ rl.lock = 0 =>
          \A t \in 0..MaxTime :
              t > now - rl.window_size =>
                  CountOf(rl.request_times, t) = rlhist[t]
    /\ \A t \in 0..MaxTime :
          AdmittedIn(t, rl.window_size) <= rl.max_requests_per_second

C12_Witness ==
    /\ rl.lock = 2
    /\ rlc[2].pc = "rejecting"
    /\ rlc[2].now = now
    /\ rlret.caller = 1
    /\ rlret.ok
    /\ rlhist[now] = rl.max_requests_per_second

\* C13: a rejected call has no side effect on the admission state: it
\* appends no timestamp, the in-window timestamps are the same before and
\* after the call, and the reason reports the current in-window count.
C13_RejectionFrame ==
    [][\A c \in Callers :
          /\ ThrottlePruneStep(c) =>
                InWindow(rl'.request_times, rlc[c].now, rl.window_size)
                  = InWindow(rl.request_times, rlc[c].now, rl.window_size)
          /\ ThrottleRejectStep(c) =>
                /\ rl'.request_times = rl.request_times
                /\ rlhist' = rlhist
                /\ ~rlret'.ok
                /\ rlret'.count
                     = Len(InWindow(rl.request_times, rlc[c].now,
                                    rl.window_size))
                /\ rlret'.window = rl.window_size]_vars

C13_Witness ==
    /\ rl.lock = 0
    /\ ~rlret.ok
    /\ rlret.count = rl.max_requests_per_second
    /\ rlret.count = Len(rl.request_times)
    /\ rlhist[now] = 0

\* C14 as claimed: each call removes exactly the timestamps older than
\* now - window_size (one equal to now - window_size still counts), admits
\* iff the number of remaining timestamps is below the limit, and appends
\* now iff it admits.
C14_PruneKeepsBoundary ==
    [][\A c \in Callers :
          /\ ThrottlePruneStep(c) =>
                rl'.request_times =
                    SelectSeq(rl.request_times,
                              LAMBDA req_time :
                                  req_time >= rlc[c].now - rl.window_size)
          /\ ThrottleReturnStep(c) =>
                /\ rlret'.ok = (Len(rl.request_times)
                                  < rl.max_requests_per_second)
                /\ rl'.request_times =
                     IF rlret'.ok THEN Append(rl.request_times, rlc[c].now)
                     ELSE rl.request_times]_vars

\* C14 as amended: each call removes exactly the timestamps that are not
\* newer than now - window_size (one equal to now - window_size is removed
\* too), admits iff the number of remaining timestamps is below the limit,
\* and appends now iff it admits.
C14_PruneDropsBoundary ==
    [][\A c \in Callers :
          /\ ThrottlePruneStep(c) =>
                rl'.request_times =
                    SelectSeq(rl.request_times,
                              LAMBDA req_time :
                                  req_time > rlc[c].now - rl.window_size)
          /\ ThrottleReturnStep(c) =>
                /\ rlret'.ok = (Len(rl.request_times)
                                  < rl.max_requests_per_second)
                /\ rl'.request_times =
                     IF rlret'.ok THEN Append(rl.request_times, rlc[c].now)
                     ELSE rl.request_times]_vars

C14_Witness ==
    \E c \in Callers :
        /\ rlc[c].pc = "checking"
        /\ rlc[c].now >= rl.window_size
        /\ rlhist[rlc[c].now - rl.window_size] = rl.max_requests_per_second
        /\ rl.request_times = <<>>

\* ======================================================= OrderQueueManager
\* priorities the callers pass to enqueue_order
Priorities == {0, 1}
\* order_data.get('sale_id')
SaleIds == {1}
\* error_message passed to mark_failed
ErrorMessages == {"boom"}
\* a statement of the session returns or raises
StoreOutcomes == {"ok", "raise"}
\* the commit of enqueue_order succeeds, or raises and the rollback of the
\* except clause succeeds, or raises and that rollback raises as well
EnqueueOutcomes == StoreOutcomes \cup {"raise_rollback_raise"}
max_attempts == 3

\* config.get('max_size', 1000): smaller than the load, or as large
QueueSizes == {1, MaxItems}

NewRow(sale_id, priority) ==
    [saleID |-> sale_id, priority |-> priority, status |-> "pending",
     attempts |-> 0, error_message |-> "", max_attempts |-> max_attempts,
     queue_type |-> "processing"]

InitQueue ==
    /\ now = 0
    /\ BreakerAtRest
    /\ ThrottleAtRest
    /\ OthersAtRest
    /\ \E max_size \in QueueSizes : q = NewQueue(max_size)
    /\ qc = QueueIdle
    /\ qret = NoQueueReturn

\* tuple comparison of the entries (-priority, timestamp, queueID)
TupleLess(e, f) ==
    \/ e[1] < f[1]
    \/ e[1] = f[1] /\ e[2] < f[2]
    \/ e[1] = f[1] /\ e[2] = f[2] /\ e[3] < f[3]

\* the entry PriorityQueue.get() removes: the least one
QueueHead(entries) ==
    CHOOSE e \in entries : \A f \in entries \ {e} : TupleLess(e, f)

\* db.query(OrderQueue).filter_by(queueID=queue_id).first()
HasRow(queue_id) == queue_id \in 1..Len(q.rows)

\* enqueue_order that leaves the entry in memory when the commit fails
EnqueueCommit_PutOnFailure(sale_id, priority, outcome) ==
    /\ qc.pc = "idle"
    /\ Len(q.rows) < MaxItems
    /\ IF outcome = "ok"
       THEN /\ q' = [q EXCEPT !.rows = Append(@, NewRow(sale_id, priority))]
            /\ qc' = [pc |-> "putting", id |-> Len(q.rows) + 1,
                      priority |-> priority]
            /\ qret' = qret
       ELSE /\ q' = [q EXCEPT !.priority_queue =
                         @ \cup {<<0 - priority, now, Len(q.rows) + 1>>}]
            /\ qc' = QueueIdle
            /\ qret' = [NoQueueReturn EXCEPT !.op = "enqueue",
                                             !.msg = "Failed to queue order",
                                             !.priority = priority]
    /\ UNCHANGED <<now, outsideQueue>>

\* enqueue_order, lines 80-95: create the record and commit it
EnqueueCommit(sale_id, priority, outcome) ==
    /\ qc.pc = "idle"
    /\ Len(q.rows) < MaxItems
    /\ IF outcome = "ok"
       THEN /\ q' = [q EXCEPT !.rows = Append(@, NewRow(sale_id, priority))]
            /\ qc' = [pc |-> "putting", id |-> Len(q.rows) + 1,
                      priority |-> priority]
            /\ qret' = qret
       ELSE \* except: rollback, return False; an error of rollback()
            \* itself leaves enqueue_order as an exception
            /\ q' = q
            /\ qc' = QueueIdle
            /\ qret' = IF outcome = "raise"
                        THEN [NoQueueReturn EXCEPT
                                !.op = "enqueue",
                                !.msg = "Failed to queue order",
                                !.priority = priority]
                        ELSE [NoQueueReturn EXCEPT
                                !.op = "enqueue raised",
                                !.priority = priority]
    /\ UNCHANGED <<now, outsideQueue>>

\* enqueue_order that stores the priority without negating it
EnqueuePut_PositivePriority ==
    /\ qc.pc = "putting"
    /\ IF Cardinality(q.priority_queue) < q.max_size
       THEN q' = [q EXCEPT !.priority_queue =
                      @ \cup {<<qc.priority, now, qc.id>>}]
       ELSE q' = q
    /\ qc' = QueueIdle
    /\ qret' = [NoQueueReturn EXCEPT !.op = "enqueue", !.ok = TRUE,
                                     !.msg = "Order queued",
                                     !.priority = qc.priority]
    /\ UNCHANGED <<now, outsideQueue>>

\* enqueue_order, lines 97-125: put_nowait, Full is swallowed, return True
EnqueuePut ==
    /\ qc.pc = "putting"
    /\ IF Cardinality(q.priority_queue) < q.max_size
       THEN q' = [q EXCEPT !.priority_queue =
                      @ \cup {<<0 - qc.priority, now, qc.id>>}]
       ELSE q' = q
    /\ qc' = QueueIdle
    /\ qret' = [NoQueueReturn EXCEPT !.op = "enqueue", !.ok = TRUE,
                                     !.msg = "Order queued",
                                     !.priority = qc.priority]
    /\ UNCHANGED <<now, outsideQueue>>

\* dequeue_order, lines 132-160
DequeueOrder(outcome) ==
    /\ qc.pc = "idle"
    /\ IF q.priority_queue = {}
       THEN /\ q' = q
            /\ qret' = [NoQueueReturn EXCEPT !.op = "dequeue"]
       ELSE LET head == QueueHead(q.priority_queue)
                queue_id == head[3]
                rest == q.priority_queue \ {head}
            IN IF ~HasRow(queue_id) \/ outcome = "raise"
               THEN /\ q' = [q EXCEPT !.priority_queue = rest]
                    /\ qret' = [NoQueueReturn EXCEPT !.op = "dequeue"]
               ELSE /\ q' = [q EXCEPT
                               !.priority_queue = rest,
                               !.rows[queue_id].status = "processing",
                               !.rows[queue_id].attempts = @ + 1]
                    /\ qret' = [op |-> "dequeue", ok |-> TRUE, msg |-> "",
                                queue_id |-> queue_id,
                                sale_id |-> q.rows[queue_id].saleID,
                                priority |-> 0 - head[1],
                                attempts |-> q.rows[queue_id].attempts + 1]
    /\ qc' = qc
    /\ UNCHANGED <<now, outsideQueue>>

\* mark_completed that counts every call as an attempt
MarkCompleted_CountsAttempt(queue_id, outcome) ==
    /\ qc.pc = "idle"
    /\ IF HasRow(queue_id) /\ outcome = "ok"
       THEN /\ q' = [q EXCEPT !.rows[queue_id].status = "completed",
                              !.rows[queue_id].attempts = @ + 1]
            /\ qret' = [NoQueueReturn EXCEPT !.op = "mark_completed",
                                             !.ok = TRUE]
       ELSE /\ q' = q
            /\ qret' = [NoQueueReturn EXCEPT !.op = "mark_completed"]
    /\ qc' = qc
    /\ UNCHANGED <<now, outsideQueue>>

\* mark_completed, lines 162-173
MarkCompleted(queue_id, outcome) ==
    /\ qc.pc = "idle"
    /\ IF HasRow(queue_id) /\ outcome = "ok"
       THEN /\ q' = [q EXCEPT !.rows[queue_id].status = "completed"]
            /\ qret' = [NoQueueReturn EXCEPT !.op = "mark_completed",
                                             !.ok = TRUE]
       ELSE /\ q' = q
            /\ qret' = [NoQueueReturn EXCEPT !.op = "mark_completed"]
    /\ qc' = qc
    /\ UNCHANGED <<now, outsideQueue>>

\* mark_failed, lines 175-187
MarkFailed(queue_id, error_message, outcome) ==
    /\ qc.pc = "idle"
    /\ IF HasRow(queue_id) /\ outcome = "ok"
       THEN /\ q' = [q EXCEPT !.rows[queue_id].status = "failed",
                              !.rows[queue_id].error_message = error_message]
            /\ qret' = [NoQueueReturn EXCEPT !.op = "mark_failed",
                                             !.ok = TRUE]
       ELSE /\ q' = q
            /\ qret' = [NoQueueReturn EXCEPT !.op = "mark_failed"]
    /\ qc' = qc
    /\ UNCHANGED <<now, outsideQueue>>

\* the clock while the order queue is exercised
QueueTick ==
    /\ now < MaxQueueTime
    /\ Tick

\* one caller at a time uses the order queue
NextQueue ==
    \/ QueueTick
    \/ \E sale_id \in SaleIds, priority \in Priorities,
          outcome \in StoreOutcomes :
          EnqueueCommit(sale_id, priority, outcome)
    \/ EnqueuePut
    \/ \E outcome \in StoreOutcomes : DequeueOrder(outcome)
    \/ \E queue_id \in 1..MaxItems, outcome \in StoreOutcomes :
          MarkCompleted(queue_id, outcome)
    \/ \E queue_id \in 1..MaxItems, error_message \in ErrorMessages,
          outcome \in StoreOutcomes :
          MarkFailed(queue_id, error_message, outcome)

SpecQueue == InitQueue /\ [][NextQueue]_vars

\* enqueue and dequeue alone: the calls that touch the in-memory queue
NextQueueOrder ==
    \/ QueueTick
    \/ \E sale_id \in SaleIds, priority \in Priorities,
          outcome \in StoreOutcomes :
          EnqueueCommit(sale_id, priority, outcome)
    \/ EnqueuePut
    \/ \E outcome \in StoreOutcomes : DequeueOrder(outcome)

SpecQueueOrder == InitQueue /\ [][NextQueueOrder]_vars

\* all the calls that write a record's status, at one clock value
NextQueueStatus ==
    \/ \E sale_id \in SaleIds, priority \in Priorities,
          outcome \in StoreOutcomes :
          EnqueueCommit(sale_id, priority, outcome)
    \/ EnqueuePut
    \/ \E outcome \in StoreOutcomes : DequeueOrder(outcome)
    \/ \E queue_id \in 1..MaxItems, outcome \in StoreOutcomes :
          MarkCompleted(queue_id, outcome)
    \/ \E queue_id \in 1..MaxItems, error_message \in ErrorMessages,
          outcome \in StoreOutcomes :
          MarkFailed(queue_id, error_message, outcome)

SpecQueueStatus == InitQueue /\ [][NextQueueStatus]_vars

\* ------------------------------------------------ properties of the queue
\* a step of dequeue_order that removes an entry from the in-memory queue
DequeuePopStep ==
    Cardinality(q'.priority_queue) < Cardinality(q.priority_queue)
\* the entry such a step removes
Popped == CHOOSE e \in q.priority_queue : e \notin q'.priority_queue
\* the return of enqueue_order after the in-memory insertion
EnqueueReturnStep == qc.pc = "putting" /\ qc'.pc = "idle"
\* a call of mark_completed
MarkCompletedStep ==
    /\ qret'.op = "mark_completed"
    /\ qc.pc = "idle"
    /\ qc' = qc
    /\ now' = now

\* C15: dequeue order is higher priority first, then earlier enqueue first:
\* the entry a dequeue takes has, against every entry left in memory, a
\* higher priority, or an equal priority and an earlier enqueue; a returned
\* item is that entry, with the priority it was enqueued with.
C15_DequeueOrder ==
    [][DequeuePopStep =>
          /\ \A f \in q'.priority_queue :
                \/ q.rows[Popped[3]].priority > q.rows[f[3]].priority
                \/ /\ q.rows[Popped[3]].priority = q.rows[f[3]].priority
                   /\ Popped[3] < f[3]
          /\ qret'.ok =>
                /\ qret'.queue_id = Popped[3]
                /\ qret'.priority = q.rows[Popped[3]].priority]_vars

C15_Witness ==
    /\ qret.op = "dequeue"
    /\ qret.ok
    /\ qret.queue_id = 2
    /\ qret.priority = 1
    /\ \E f \in q.priority_queue : f[3] = 1 /\ q.rows[1].priority = 0

\* C16: enqueue is durable-first: the record is committed with status
\* pending before the in-memory insertion is attempted, every enqueue that
\* returns ok has such a record, at capacity the insertion is skipped and
\* enqueue still returns ok with the pending record in place, and no
\* identifier is in memory without a committed record.
C16_DurableFirst ==
    /\ [](/\ \A e \in q.priority_queue : HasRow(e[3])
          /\ qc.pc = "putting" =>
                /\ HasRow(qc.id)
                /\ q.rows[qc.id].status = "pending"
                /\ \A e \in q.priority_queue : e[3] # qc.id)
    /\ [][/\ EnqueueReturnStep =>
                /\ qret'.ok
                /\ qret'.op = "enqueue"
                /\ q'.rows = q.rows
                /\ q'.rows[qc.id].status = "pending"
                /\ Cardinality(q.priority_queue) >= q.max_size =>
                      q'.priority_queue = q.priority_queue
                /\ Cardinality(q.priority_queue) < q.max_size =>
                      \E e \in q'.priority_queue : e[3] = qc.id
          /\ (qret'.op = "enqueue" /\ qret'.ok /\ qret' # qret) =>
                EnqueueReturnStep]_vars

C16_Witness ==
    /\ qret.op = "enqueue"
    /\ qret.ok
    /\ qc.pc = "idle"
    /\ Len(q.rows) = 2
    /\ q.rows[2].status = "pending"
    /\ Cardinality(q.priority_queue) = q.max_size
    /\ \A e \in q.priority_queue : e[3] # 2

\* C17: when dequeue pops an identifier whose record is missing or no
\* longer pending, it returns no item and leaves the records unchanged.
C17_SkipsNonPending ==
    [][(/\ DequeuePopStep
        /\ \/ ~HasRow(Popped[3])
           \/ q.rows[Popped[3]].status # "pending") =>
          /\ ~qret'.ok
          /\ q'.rows = q.rows]_vars

\* C18: every dequeue that returns an item has moved its record from
\* pending to processing and increased its attempts by exactly 1, and the
\* returned attempts value equals the persisted one.
C18_ClaimsPending ==
    [][(DequeuePopStep /\ qret'.ok) =>
          /\ q.rows[Popped[3]].status = "pending"
          /\ q'.rows[Popped[3]].status = "processing"
          /\ q'.rows[Popped[3]].attempts = q.rows[Popped[3]].attempts + 1
          /\ qret'.attempts = q'.rows[Popped[3]].attempts]_vars

\* C19: a record's status changes only along pending -> processing,
\* processing -> completed and processing -> failed (with the reason
\* recorded); mark_completed or mark_failed on a record that is not
\* processing does not change its status.
C19_StatusTransitions ==
    [][\A queue_id \in 1..Len(q.rows) :
          q'.rows[queue_id].status # q.rows[queue_id].status =>
              \/ /\ q.rows[queue_id].status = "pending"
                 /\ q'.rows[queue_id].status = "processing"
              \/ /\ q.rows[queue_id].status = "processing"
                 /\ q'.rows[queue_id].status = "completed"
              \/ /\ q.rows[queue_id].status = "processing"
                 /\ q'.rows[queue_id].status = "failed"
                 /\ q'.rows[queue_id].error_message \in ErrorMessages]_vars

\* C20: mark_completed is idempotent: a call changes at most the status
\* of a record that is not yet completed, to completed; so a call on a
\* record that is already completed changes no record, and no
\* mark_completed call moves a completed record back to pending or
\* processing.
C20_MarkCompletedIdempotent ==
    [][MarkCompletedStep =>
          /\ Len(q'.rows) = Len(q.rows)
          /\ \A queue_id \in 1..Len(q.rows) :
                /\ q.rows[queue_id].status = "completed" =>
                      q'.rows[queue_id] = q.rows[queue_id]
                /\ q'.rows[queue_id] # q.rows[queue_id] =>
                      /\ qret'.ok
                      /\ q'.rows[queue_id] =
                           [q.rows[queue_id] EXCEPT !.status = "completed"]]_vars

C20_Witness ==
    /\ qret.op = "mark_completed"
    /\ qret.ok
    /\ \E queue_id \in 1..Len(q.rows) :
          /\ q.rows[queue_id].status = "completed"
          /\ q.rows[queue_id].attempts = 1

\* ====================================================== ConcurrencyManager
\* a statement of execute_with_lock returns or raises
GuardedOutcomes == {"ok", "raise"}
LimitReached == "Maximum concurrent operations reached"

InitConcurrency ==
    /\ now = 0
    /\ BreakerAtRest
    /\ ThrottleAtRest
    /\ QueueAtRest
    /\ CoordinatorAtRest
    /\ RetryAtRest
    /\ ScenariosAtRest
    /\ \E max_concurrent \in 1..MaxConcurrent, is_postgresql \in BOOLEAN :
          cm = NewConcurrency(max_concurrent, is_postgresql)
    /\ cmc = [c \in Callers |-> ConcurrencyIdle]
    /\ cmret = NoConcurrencyReturn

\* execute_with_lock that admits while active_operations <= max_concurrent
CmAdmit_OffByOne(c) ==
    /\ cmc[c].pc = "idle"
    /\ IF cm.active_operations > cm.max_concurrent
       THEN /\ cm' = cm
            /\ cmc' = cmc
            /\ cmret' = [NoConcurrencyReturn EXCEPT !.caller = c,
                                                    !.val = LimitReached]
       ELSE /\ cm' = [cm EXCEPT !.active_operations = @ + 1]
            /\ cmc' = [cmc EXCEPT ![c] = [ConcurrencyIdle EXCEPT
                                            !.pc = "hint"]]
            /\ cmret' = cmret
    /\ UNCHANGED <<now, outsideConcurrency>>

\* execute_with_lock whose rejection leaves through the finally clause
CmAdmit_RejectReleases(c) ==
    /\ cmc[c].pc = "idle"
    /\ IF cm.active_operations >= cm.max_concurrent
       THEN /\ cm' = [cm EXCEPT !.active_operations = @ - 1]
            /\ cmc' = cmc
            /\ cmret' = [NoConcurrencyReturn EXCEPT !.caller = c,
                                                    !.val = LimitReached]
       ELSE /\ cm' = [cm EXCEPT !.active_operations = @ + 1]
            /\ cmc' = [cmc EXCEPT ![c] = [ConcurrencyIdle EXCEPT
                                            !.pc = "hint"]]
            /\ cmret' = cmret
    /\ UNCHANGED <<now, outsideConcurrency>>

\* lines 207-210, under self.lock: reject at the limit, else take a slot
CmAdmit(c) ==
    /\ cmc[c].pc = "idle"
    /\ IF cm.active_operations >= cm.max_concurrent
       THEN /\ cm' = cm
            /\ cmc' = cmc
            /\ cmret' = [NoConcurrencyReturn EXCEPT !.caller = c,
                                                    !.val = LimitReached]
       ELSE /\ cm' = [cm EXCEPT !.active_operations = @ + 1]
            /\ cmc' = [cmc EXCEPT ![c] = [ConcurrencyIdle EXCEPT
                                            !.pc = "hint"]]
            /\ cmret' = cmret
    /\ UNCHANGED <<now, outsideConcurrency>>

\* execute_with_lock that notes a failed hint and invokes the operation
\* all the same
CmHint_RunsAnyway(c, outcome) ==
    /\ cmc[c].pc = "hint"
    /\ ~cm.is_postgresql => outcome = "ok"
    /\ cmc' = [cmc EXCEPT ![c] =
                 IF outcome = "ok"
                 THEN [@ EXCEPT !.pc = "running"]
                 ELSE [@ EXCEPT !.pc = "running", !.err = "lock_timeout"]]
    /\ UNCHANGED <<now, cm, cmret, outsideConcurrency>>

\* lines 215-220: SET lock_timeout on PostgreSQL, nothing otherwise
CmHint(c, outcome) ==
    /\ cmc[c].pc = "hint"
    /\ ~cm.is_postgresql => outcome = "ok"
    /\ cmc' = [cmc EXCEPT ![c] =
                 IF outcome = "ok"
                 THEN [@ EXCEPT !.pc = "running"]
                 ELSE [@ EXCEPT !.pc = "rollback", !.err = "lock_timeout"]]
    /\ UNCHANGED <<now, cm, cmret, outsideConcurrency>>

\* execute_with_lock without the except clause of lines 237-240
CmRun_NoRollback(c, outcome) ==
    /\ cmc[c].pc = "running"
    /\ cmc' = [cmc EXCEPT ![c] =
                 IF outcome = "ok"
                 THEN [@ EXCEPT !.pc = "commit", !.op = "ok"]
                 ELSE [@ EXCEPT !.pc = "release", !.op = "raise",
                                !.err = "operation"]]
    /\ UNCHANGED <<now, cm, cmret, outsideConcurrency>>

\* line 224: operation_func(*args, **kwargs) returns or raises
CmRun(c, outcome) ==
    /\ cmc[c].pc = "running"
    /\ cmc' = [cmc EXCEPT ![c] =
                 IF outcome = "ok"
                 THEN [@ EXCEPT !.pc = "commit", !.op = "ok"]
                 ELSE [@ EXCEPT !.pc = "rollback", !.op = "raise",
                                !.err = "operation"]]
    /\ UNCHANGED <<now, cm, cmret, outsideConcurrency>>

\* line 227: self.db.commit()
CmCommit(c, outcome) ==
    /\ cmc[c].pc = "commit"
    /\ cmc' = [cmc EXCEPT ![c] =
                 IF outcome = "ok"
                 THEN [@ EXCEPT !.pc = "release", !.commits = @ + 1]
                 ELSE [@ EXCEPT !.pc = "rollback", !.commits = @ + 1,
                                !.err = "commit"]]
    /\ UNCHANGED <<now, cm, cmret, outsideConcurrency>>

\* lines 237-240: self.db.rollback(), then raise e; a failing rollback
\* raises its own error instead
CmRollback(c, outcome) ==
    /\ cmc[c].pc = "rollback"
    /\ cmc' = [cmc EXCEPT ![c] =
                 IF outcome = "ok"
                 THEN [@ EXCEPT !.pc = "release", !.rollbacks = @ + 1]
                 ELSE [@ EXCEPT !.pc = "release", !.rollbacks = @ + 1,
                                !.err = "rollback"]]
    /\ UNCHANGED <<now, cm, cmret, outsideConcurrency>>

\* execute_with_lock that gives the slot back only after a success
CmRelease_OnlyOnSuccess(c) ==
    /\ cmc[c].pc = "release"
    /\ cm' = [cm EXCEPT !.active_operations =
                 IF cmc[c].err = "" THEN @ - 1 ELSE @]
    /\ cmret' = [caller |-> c, ok |-> cmc[c].err = "",
                 val |-> IF cmc[c].err = "" THEN "result" ELSE cmc[c].err,
                 op |-> cmc[c].op, commits |-> cmc[c].commits,
                 rollbacks |-> cmc[c].rollbacks]
    /\ cmc' = [cmc EXCEPT ![c] = ConcurrencyIdle]
    /\ UNCHANGED <<now, outsideConcurrency>>

\* lines 241-247: finally gives the slot back under self.lock; then the
\* call returns (True, operation_result) or, through the outer except,
\* (False, "Concurrent operation failed: ...")
CmRelease(c) ==
    /\ cmc[c].pc = "release"
    /\ cm' = [cm EXCEPT !.active_operations = @ - 1]
    /\ cmret' = [caller |-> c, ok |-> cmc[c].err = "",
                 val |-> IF cmc[c].err = "" THEN "result" ELSE cmc[c].err,
                 op |-> cmc[c].op, commits |-> cmc[c].commits,
                 rollbacks |-> cmc[c].rollbacks]
    /\ cmc' = [cmc EXCEPT ![c] = ConcurrencyIdle]
    /\ UNCHANGED <<now, outsideConcurrency>>

\* concurrent callers of one ConcurrencyManager instance
NextConcurrency ==
    \/ \E c \in Callers : CmAdmit(c)
    \/ \E c \in Callers, outcome \in GuardedOutcomes : CmHint(c, outcome)
    \/ \E c \in Callers, outcome \in GuardedOutcomes : CmRun(c, outcome)
    \/ \E c \in Callers, outcome \in GuardedOutcomes : CmCommit(c, outcome)
    \/ \E c \in Callers, outcome \in GuardedOutcomes : CmRollback(c, outcome)
    \/ \E c \in Callers : CmRelease(c)

SpecConcurrency == InitConcurrency /\ [][NextConcurrency]_vars

\* ------------------------------------- properties of the concurrency limiter
\* callers holding a slot
Admitted == {c \in Callers : cmc[c].pc # "idle"}
\* callers whose operation_func is executing
Executing == {c \in Callers : cmc[c].pc = "running"}

\* the step of caller c, and of no other caller, that ends in a rejection
CmRejectStep(c) ==
    /\ cmc[c].pc = "idle"
    /\ cmc'[c].pc = "idle"
    /\ \A d \in Callers \ {c} : cmc'[d] = cmc[d]
    /\ cmret'.caller = c
    /\ cmret'.val = LimitReached
    /\ cm.active_operations >= cm.max_concurrent
CmAdmitStep(c) == cmc[c].pc = "idle" /\ cmc'[c].pc = "hint"
CmReturnStep(c) == cmc[c].pc = "release" /\ cmc'[c].pc = "idle"

\* an admitted call that never invokes its operation: the lock hint failed
HintFailed(c) ==
    cmc[c].op = "none" /\ cmc[c].pc \in {"rollback", "release"}

CounterInRange ==
    /\ cm.active_operations \in 0..cm.max_concurrent
    /\ Cardinality(Executing) <= cm.max_concurrent

\* C21 as claimed: the operations executing at the same time never exceed
\* K and the counter stays within 0..K; with K = 1, of two overlapping
\* calls exactly one runs its operation and the other is rejected with the
\* limit-reached reason.
C21_OneRunsOneRejected ==
    /\ []CounterInRange
    /\ [][\A c \in Callers :
             /\ (cm.max_concurrent = 1 /\ CmRejectStep(c)) =>
                   /\ ~cmret'.ok
                   /\ Cardinality(Admitted \ {c}) = 1
                   /\ \A d \in Admitted : ~HintFailed(d)
             /\ (cm.max_concurrent = 1 /\ Admitted \ {c} # {}) =>
                   ~CmAdmitStep(c)]_vars

\* C21 as amended: the operations executing at the same time never exceed
\* K and the counter stays within 0..K; with K = 1, of two overlapping
\* calls exactly one is admitted and the other is rejected with the
\* limit-reached reason; the admitted one runs its operation unless its
\* lock hint fails first.
C21_OneAdmittedOneRejected ==
    /\ []CounterInRange
    /\ [][\A c \in Callers :
             /\ (cm.max_concurrent = 1 /\ CmRejectStep(c)) =>
                   /\ ~cmret'.ok
                   /\ Cardinality(Admitted \ {c}) = 1
                   /\ \A d \in Admitted :
                         HintFailed(d) =>
                             cmc[d].err \in {"lock_timeout", "rollback"}
             /\ (cm.max_concurrent = 1 /\ Admitted \ {c} # {}) =>
                   ~CmAdmitStep(c)]_vars

C21_Witness ==
    /\ cm.max_concurrent = 1
    /\ cmret.caller = 2
    /\ cmret.val = LimitReached
    /\ cmc[1].pc = "running"
    /\ cm.active_operations = 1

\* C22: every admitted call gives its slot back exactly once on every exit
\* path: the counter always equals the number of calls in flight (so it is
\* 0 when none is), only a returning call lowers it, by exactly 1, and a
\* call is rejected only when max_concurrent other calls are in flight.
C22_SlotReleased ==
    /\ [](cm.active_operations = Cardinality(Admitted))
    /\ [][\A c \in Callers :
             /\ CmReturnStep(c) =>
                   cm'.active_operations = cm.active_operations - 1
             /\ CmRejectStep(c) =>
                   Cardinality(Admitted \ {c}) >= cm.max_concurrent]_vars
    /\ [][cm'.active_operations < cm.active_operations =>
             \E c \in Callers : CmReturnStep(c)]_vars

C22_Witness ==
    /\ cmret.val = "rollback"
    /\ cmret.commits = 1
    /\ ~cmret.ok
    /\ Admitted = {}
    /\ cm.active_operations = 0

\* C23: a call rejected at the limit has no side effects: the operation is
\* not invoked, the counter is unchanged, and neither commit nor rollback
\* is issued.
C23_RejectionNoEffect ==
    [][\A c \in Callers :
          CmRejectStep(c) =>
              /\ cm' = cm
              /\ cmc' = cmc
              /\ ~cmret'.ok
              /\ cmret'.op = "none"
              /\ cmret'.commits = 0
              /\ cmret'.rollbacks = 0]_vars

C23_Witness ==
    /\ cmret.val = LimitReached
    /\ cmret.caller = 1
    /\ cmret.op = "none"
    /\ cm.active_operations = cm.max_concurrent
    /\ cmc[1].pc = "idle"
    /\ cmc[2].pc = "commit"

\* C24 as claimed: when the operation fails the transaction is rolled back
\* before the failure is reported, no commit is issued, and (false, reason)
\* is returned; when the operation succeeds the transaction is committed
\* exactly once and (true, result) is returned.
C24_CommitOrRollback ==
    [][\A c \in Callers :
          CmReturnStep(c) =>
              /\ cmc[c].op = "raise" =>
                    /\ cmret'.rollbacks = 1
                    /\ cmret'.commits = 0
                    /\ ~cmret'.ok
              /\ cmc[c].op = "ok" =>
                    /\ cmret'.commits = 1
                    /\ cmret'.ok
                    /\ cmret'.val = "result"]_vars

\* C24 as amended: when the operation fails the transaction is rolled back
\* before the failure is reported, no commit is issued, and (false, reason)
\* is returned; when the operation succeeds the commit is issued exactly
\* once, and (true, result) is returned if that commit succeeds, while a
\* failed commit is rolled back and reported as (false, reason).
C24_CommitOnceThenReport ==
    [][\A c \in Callers :
          CmReturnStep(c) =>
              /\ cmc[c].op = "raise" =>
                    /\ cmret'.rollbacks = 1
                    /\ cmret'.commits = 0
                    /\ ~cmret'.ok
              /\ cmc[c].op = "ok" =>
                    /\ cmret'.commits = 1
                    /\ cmret'.ok = (cmret'.rollbacks = 0)
                    /\ cmret'.ok => cmret'.val = "result"
                    /\ ~cmret'.ok =>
                          /\ cmret'.rollbacks = 1
                          /\ cmret'.val \in {"commit", "rollback"}]_vars

C24_Witness ==
    /\ cmret.op = "ok"
    /\ cmret.commits = 1
    /\ cmret.rollbacks = 1
    /\ cmret.val = "commit"
    /\ ~cmret.ok

\* C33: the lock_timeout hint is requested after the slot is taken and
\* before the operation is invoked: a call that takes a slot goes to the
\* hint step, and the operation is reached from the hint step only.  On a
\* store with the primitive a failing hint leaves the operation uninvoked,
\* a rollback is requested, the slot is given back and (false, reason) is
\* returned; on a store without it the hint step does nothing and the
\* operation runs next.
C33_HintBeforeOperation ==
    /\ [](\A c \in Callers :
            /\ cmc[c].pc = "hint" =>
                  cmc[c].op = "none" /\ cm.active_operations >= 1
            /\ cmc[c].err = "lock_timeout" => HintFailed(c))
    /\ [][\A c \in Callers :
            /\ (cmc[c].pc = "idle" /\ cmc'[c].pc # "idle") =>
                  /\ cmc'[c].pc = "hint"
                  /\ cm'.active_operations = cm.active_operations + 1
            /\ (cmc[c].pc # "running" /\ cmc'[c].pc = "running") =>
                  cmc[c].pc = "hint"
            /\ (cmc[c].op = "none" /\ cmc'[c].op # "none") =>
                  cmc[c].pc = "running"
            /\ (cmc[c].pc = "hint" /\ cmc'[c].pc # "hint") =>
                  IF cm.is_postgresql
                  THEN \/ cmc'[c].pc = "running" /\ cmc'[c].err = ""
                       \/ /\ cmc'[c].pc = "rollback"
                          /\ cmc'[c].err = "lock_timeout"
                  ELSE cmc'[c].pc = "running" /\ cmc'[c].err = ""
            /\ (CmReturnStep(c) /\ cmc[c].op = "none") =>
                  /\ cmret'.caller = c
                  /\ ~cmret'.ok
                  /\ cmret'.val \in {"lock_timeout", "rollback"}
                  /\ cmret'.op = "none"
                  /\ cmret'.rollbacks = 1
                  /\ cmret'.commits = 0
                  /\ cm'.active_operations = cm.active_operations - 1
       ]_vars

\* a call whose hint failed has returned
C33_Witness ==
    /\ cm.is_postgresql
    /\ cmret.caller # 0
    /\ cmret.val = "lock_timeout"
    /\ cmret.op = "none"
    /\ cmret.rollbacks = 1
    /\ cm.active_operations = 0

\* =================================================== QualityTacticsManager
\* the row GracefulDegradationTactic.execute writes (availability.py:173-181)
NewRetryRow(sale_id, priority) ==
    [NewRow(sale_id, priority) EXCEPT !.queue_type = "payment_retry"]

\* the (bool, dict) pairs process_flash_sale_order returns
CoordinatorReturn(ok, error) ==
    [kind |-> "returned", ok |-> ok, error |-> error,
     tracked |-> co.tracked, breaker |-> co.breaker, queued |-> co.queued]

InitCoordinator ==
    /\ now = 0
    /\ BreakerAtRest
    /\ ThrottleAtRest
    /\ ConcurrencyAtRest
    /\ RetryAtRest
    /\ ScenariosAtRest
    /\ \E max_size \in QueueSizes : q = NewQueue(max_size)
    /\ qc = QueueIdle
    /\ qret = NoQueueReturn
    /\ co = CoordinatorIdle
    /\ tracking = 0
    /\ coret = NoCoordinatorReturn

\* line 241: start_progress_tracking opens an entry for operation_id
CoStart ==
    /\ co.pc = "idle"
    /\ qc.pc = "idle"
    /\ tracking < MaxTracked
    /\ Len(q.rows) < MaxItems
    /\ co' = [CoordinatorIdle EXCEPT !.pc = "throttle", !.tracked = TRUE]
    /\ tracking' = tracking + 1
    /\ UNCHANGED <<now, q, qc, qret, coret, outsideCoordinator>>

\* lines 244-248: check_throttling; a rejected request returns at once
CoThrottle(allowed) ==
    /\ co.pc = "throttle"
    /\ IF allowed
       THEN /\ co' = [co EXCEPT !.pc = "feature"]
            /\ coret' = coret
       ELSE /\ co' = CoordinatorIdle
            /\ coret' = CoordinatorReturn(FALSE, "Request throttled")
    /\ UNCHANGED <<now, q, qc, qret, tracking, outsideCoordinator>>

\* process_flash_sale_order whose except clause lets the error go on
CoFeature_Reraise(outcome) ==
    /\ co.pc = "feature"
    /\ CASE outcome = "enabled" ->
              /\ co' = [co EXCEPT !.pc = "breaker"]
              /\ coret' = coret
              /\ tracking' = tracking
         [] outcome = "disabled" ->
              /\ co' = CoordinatorIdle
              /\ coret' = CoordinatorReturn(FALSE, "Feature disabled")
              /\ tracking' = tracking
         [] outcome = "raise" ->
              /\ co' = CoordinatorIdle
              /\ coret' = [CoordinatorReturn(FALSE, "Processing failed")
                             EXCEPT !.kind = "raised"]
              /\ tracking' = tracking - 1
    /\ UNCHANGED <<now, q, qc, qret, outsideCoordinator>>

\* lines 252-256: is_feature_enabled; when it raises, lines 292-294 close
\* the entry with complete_operation and return "Processing failed"
CoFeature(outcome) ==
    /\ co.pc = "feature"
    /\ CASE outcome = "enabled" ->
              /\ co' = [co EXCEPT !.pc = "breaker"]
              /\ coret' = coret
              /\ tracking' = tracking
         [] outcome = "disabled" ->
              /\ co' = CoordinatorIdle
              /\ coret' = CoordinatorReturn(FALSE, "Feature disabled")
              /\ tracking' = tracking
         [] outcome = "raise" ->
              /\ co' = CoordinatorIdle
              /\ coret' = CoordinatorReturn(FALSE, "Processing failed")
              /\ tracking' = tracking - 1
    /\ UNCHANGED <<now, q, qc, qret, outsideCoordinator>>

\* line 263: execute_with_circuit_breaker(process_payment) returns
\* (True, result), or (False, reason) when the breaker rejects or the
\* operation fails
CoBreaker(success) ==
    /\ co.pc = "breaker"
    /\ co' = [co EXCEPT !.pc = IF success THEN "complete" ELSE "degrade",
                        !.breaker = IF success THEN "success" ELSE "failed"]
    /\ UNCHANGED <<now, q, qc, qret, tracking, coret, outsideCoordinator>>

\* lines 264-267: queue_order_for_retry, whose result is dropped, then the
\* "Payment failed" outcome; GracefulDegradationTactic.execute commits a
\* pending row or rolls back (availability.py:168-211)
CoDegrade(sale_id, priority, outcome) ==
    /\ co.pc = "degrade"
    /\ IF outcome = "ok"
       THEN /\ q' = [q EXCEPT !.rows =
                         Append(@, NewRetryRow(sale_id, priority))]
            /\ coret' = [CoordinatorReturn(FALSE, "Payment failed")
                           EXCEPT !.queued = "stored"]
       ELSE /\ q' = q
            /\ coret' = [CoordinatorReturn(FALSE, "Payment failed")
                           EXCEPT !.queued = "failed"]
    /\ co' = CoordinatorIdle
    /\ UNCHANGED <<now, qc, qret, tracking, outsideCoordinator>>

\* lines 269-290: complete_operation closes the entry; success is returned
CoComplete ==
    /\ co.pc = "complete"
    /\ co' = CoordinatorIdle
    /\ tracking' = tracking - 1
    /\ coret' = CoordinatorReturn(TRUE, "")
    /\ UNCHANGED <<now, q, qc, qret, outsideCoordinator>>

\* the order queue as the coordinator's caller uses it between two orders
CoQueueStep ==
    /\ co.pc = "idle"
    /\ UNCHANGED coordinatorVars
    /\ \/ \E sale_id \in SaleIds, priority \in Priorities :
             EnqueueCommit(sale_id, priority, "ok")
       \/ EnqueuePut
       \/ DequeueOrder("ok")

NextCoordinator ==
    \/ CoStart
    \/ \E allowed \in BOOLEAN : CoThrottle(allowed)
    \/ \E outcome \in {"enabled", "disabled", "raise"} : CoFeature(outcome)
    \/ \E success \in BOOLEAN : CoBreaker(success)
    \/ \E sale_id \in SaleIds, priority \in Priorities,
          outcome \in StoreOutcomes : CoDegrade(sale_id, priority, outcome)
    \/ CoComplete
    \/ CoQueueStep

SpecCoordinator == InitCoordinator /\ [][NextCoordinator]_vars

\* -------------------------------------------- properties of the coordinator
CoThrottledStep == co.pc = "throttle" /\ co'.pc = "idle"
CoDegradeStep == co.pc = "degrade" /\ co'.pc = "idle"

\* C25: when the rate limiter rejects, the coordinator returns the
\* throttled outcome with no side effects: the breaker is not consulted,
\* no queue record is created, and no progress-tracking entry is created
\* or left open.
C25_ThrottledNoEffect ==
    [][CoThrottledStep =>
          /\ coret'.error = "Request throttled"
          /\ coret'.breaker = "none"
          /\ coret'.queued = "none"
          /\ q' = q
          /\ ~coret'.tracked]_vars

\* C26: whenever the operation attempted through the breaker fails, the
\* coordinator returns the degraded outcome without raising and a pending
\* queue record for the unit of work exists; the degraded outcome is never
\* returned when no such record was stored.
C26_DegradedHasRecord ==
    [][CoDegradeStep =>
          /\ coret'.kind = "returned"
          /\ coret'.error = "Payment failed"
          /\ Len(q'.rows) = Len(q.rows) + 1
          /\ q'.rows[Len(q'.rows)].status = "pending"]_vars

\* C27: a degraded unit of work enters the priority queue like any
\* enqueued item: when its record is stored and the in-memory structure
\* has room, its identifier is in the in-memory structure, from where
\* dequeue returns it.
C27_DegradedEntersQueue ==
    [][(/\ CoDegradeStep
        /\ coret'.queued = "stored"
        /\ Cardinality(q.priority_queue) < q.max_size) =>
          \E e \in q'.priority_queue : e[3] = Len(q'.rows)]_vars

\* C28 as claimed: every call returns exactly one of the four outcomes
\* succeeded-immediately, throttled, degraded-to-queue and
\* rejected-at-capacity, and no exception reaches the caller.
C28_FourOutcomes ==
    coret.kind # "none" =>
        /\ coret.kind = "returned"
        /\ coret.error \in {"", "Request throttled", "Payment failed",
                            LimitReached}
        /\ coret.ok = (coret.error = "")

\* C28 as amended: every call returns exactly one of the structured
\* outcomes succeeded-immediately, throttled, feature-disabled,
\* degraded-to-queue and processing-failed, and no exception reaches the
\* caller.
C28_StructuredOutcomes ==
    coret.kind # "none" =>
        /\ coret.kind = "returned"
        /\ coret.error \in {"", "Request throttled", "Feature disabled",
                            "Payment failed", "Processing failed"}
        /\ coret.ok = (coret.error = "")

C28_Witness ==
    /\ coret.kind = "returned"
    /\ coret.error = "Processing failed"
    /\ co.pc = "idle"

\* ====================================================== PaymentRetryTactic
InitRetry ==
    /\ now = 0
    /\ BreakerAtRest
    /\ ThrottleAtRest
    /\ QueueAtRest
    /\ ConcurrencyAtRest
    /\ CoordinatorAtRest
    /\ ScenariosAtRest
    /\ \E n \in 1..MaxAttempts : rt = NewRetry(n)
    /\ rtret = NoRetryReturn

\* execute that calls payment_func once itself before execute_with_retry
RetryStart_InvokesFirst ==
    /\ rt.pc = "idle"
    /\ rt' = [NewRetry(rt.max_attempts) EXCEPT !.pc = "attempting",
                                                !.invoked = 1]
    /\ UNCHANGED <<now, rtret, outsideRetry>>

\* execute is called: line 279 enters execute_with_retry
RetryStart ==
    /\ rt.pc = "idle"
    /\ rt' = [NewRetry(rt.max_attempts) EXCEPT !.pc = "attempting"]
    /\ UNCHANGED <<now, rtret, outsideRetry>>

\* BaseRetry.execute_with_retry, one attempt: the operation is invoked
\* afresh; its result ends the loop, its error is kept as the last error
\* and ends the loop once max_attempts attempts have failed
BaseRetry_attempt(outcome) ==
    /\ rt.pc = "attempting"
    /\ IF outcome.ok
       THEN rt' = [rt EXCEPT !.invoked = @ + 1, !.result = outcome.val,
                             !.pc = "succeeded"]
       ELSE rt' = [rt EXCEPT !.invoked = @ + 1, !.failed = @ + 1,
                             !.last_error = Str(outcome.val),
                             !.pc = IF rt.invoked + 1 >= rt.max_attempts
                                    THEN "exhausted" ELSE "attempting"]
    /\ UNCHANGED <<now, rtret, outsideRetry>>

\* execute that reports a fixed message instead of the error it caught
RetryReturn_FixedMessage ==
    /\ rt.pc \in {"succeeded", "exhausted"}
    /\ rtret' = [kind |-> "returned", ok |-> rt.pc = "succeeded",
                 val |-> IF rt.pc = "succeeded" THEN rt.result
                         ELSE "Payment retry failed",
                 invoked |-> rt.invoked, failed |-> rt.failed]
    /\ rt' = [rt EXCEPT !.pc = "idle"]
    /\ UNCHANGED <<now, outsideRetry>>

\* lines 279-291: (True, result), or (False, str(e)) for the error that
\* execute_with_retry raised
RetryReturn ==
    /\ rt.pc \in {"succeeded", "exhausted"}
    /\ rtret' = [kind |-> "returned", ok |-> rt.pc = "succeeded",
                 val |-> IF rt.pc = "succeeded" THEN rt.result
                         ELSE rt.last_error,
                 invoked |-> rt.invoked, failed |-> rt.failed]
    /\ rt' = [rt EXCEPT !.pc = "idle"]
    /\ UNCHANGED <<now, outsideRetry>>

NextRetry ==
    \/ RetryStart
    \/ \E outcome \in OpOutcomes : BaseRetry_attempt(outcome)
    \/ RetryReturn

SpecRetry == InitRetry /\ [][NextRetry]_vars

\* the thread inside execute keeps running until execute returns
SpecRetryFair ==
    /\ SpecRetry
    /\ WF_vars(\E outcome \in OpOutcomes : BaseRetry_attempt(outcome))
    /\ WF_vars(RetryReturn)

\* ------------------------------------------ properties of the retry tactic
RetryReturnStep == rt.pc \in {"succeeded", "exhausted"} /\ rt'.pc = "idle"

\* C29: execute_with_retry always terminates after invoking the operation
\* at most max_attempts times: it returns the result of the first
\* successful attempt without invoking the operation again, and it fails
\* exactly when max_attempts consecutive attempts have failed.
C29_BoundedAttempts ==
    /\ [](rt.invoked <= rt.max_attempts)
    /\ [][/\ rt.pc = "succeeded" => rt'.invoked = rt.invoked
          /\ RetryReturnStep =>
                /\ rtret'.invoked = rt.invoked
                /\ rtret'.ok =>
                      /\ rtret'.failed = rtret'.invoked - 1
                      /\ rtret'.val = rt.result
                      /\ rtret'.val \in Results
                /\ ~rtret'.ok <=> rtret'.failed = rt.max_attempts]_vars
    /\ (rt.pc = "attempting" ~> rt.pc = "idle")

C29_Witness ==
    /\ rtret.ok
    /\ rtret.invoked = 2
    /\ rtret.failed = 1
    /\ rt.max_attempts = 3
    /\ rt.pc = "idle"

\* C30: when all max_attempts attempts fail, the error surfaced is the
\* error of the last attempt, and execute reports it as (false, description
\* of that last error) without raising.
C30_LastErrorSurfaced ==
    [][(RetryReturnStep /\ rt.failed = rt.max_attempts) =>
          /\ rtret'.kind = "returned"
          /\ ~rtret'.ok
          /\ rtret'.val = rt.last_error
          /\ \E e \in Errors : rtret'.val = Str(e)]_vars

C30_Witness ==
    /\ rtret.kind = "returned"
    /\ ~rtret.ok
    /\ rtret.failed = rt.max_attempts
    /\ rt.max_attempts >= 2
    /\ rtret.val = "gateway timeout"

\* ======================================= concurrent callers of the queue
\* dequeue_order as the steps of each of its callers: the emptiness test,
\* PriorityQueue.get() and the work on the record are separate steps, and
\* enqueue_order runs between them
outsideDequeue == <<breakerVars, throttleVars, concurrencyVars,
                    coordinatorVars, retryVars, mutexVars, limiterVars,
                    runnerVars>>

\* lines 135-136: `if self.priority_queue.empty(): return None`
DqCheck(c) ==
    /\ dq[c].pc = "idle"
    /\ dq' = [dq EXCEPT ![c] =
                IF q.priority_queue = {}
                THEN [DequeueIdle EXCEPT !.ret = 0]
                ELSE [@ EXCEPT !.pc = "get"]]
    /\ UNCHANGED <<now, q, qc, qret, dqhist, outsideDequeue>>

\* dequeue_order that reads the head and leaves it in the structure
DqGet_KeepsHead(c) ==
    /\ dq[c].pc = "get"
    /\ q.priority_queue # {}
    /\ dq' = [dq EXCEPT ![c].pc = "load",
                        ![c].entry = QueueHead(q.priority_queue)]
    /\ UNCHANGED <<now, q, qc, qret, dqhist, outsideDequeue>>

\* line 138: PriorityQueue.get() removes the least entry; on an empty
\* structure it blocks until an entry is put
DqGet(c) ==
    /\ dq[c].pc = "get"
    /\ q.priority_queue # {}
    /\ LET head == QueueHead(q.priority_queue)
       IN /\ dq' = [dq EXCEPT ![c].pc = "load", ![c].entry = head]
          /\ q' = [q EXCEPT !.priority_queue = @ \ {head}]
    /\ UNCHANGED <<now, qc, qret, dqhist, outsideDequeue>>

\* dequeue_order that puts the entry back when it has no item to return
DqLoad_PutsBack(c, outcome) ==
    /\ dq[c].pc = "load"
    /\ LET queue_id == dq[c].entry[3]
       IN IF ~HasRow(queue_id) \/ outcome = "raise"
          THEN /\ q' = [q EXCEPT !.priority_queue = @ \cup {dq[c].entry}]
               /\ dq' = [dq EXCEPT ![c] = [DequeueIdle EXCEPT !.ret = 0]]
               /\ dqhist' = [dqhist EXCEPT !.dropped = @ \cup {queue_id}]
          ELSE /\ q' = [q EXCEPT !.rows[queue_id].status = "processing",
                                 !.rows[queue_id].attempts = @ + 1]
               /\ dq' = [dq EXCEPT ![c] =
                           [DequeueIdle EXCEPT !.ret = queue_id]]
               /\ dqhist' = [dqhist EXCEPT
                               !.returned = @ \cup {queue_id},
                               !.twice = @ \/ queue_id \in dqhist.returned]
    /\ UNCHANGED <<now, qc, qret, outsideDequeue>>

\* lines 141-160: the record is loaded; a missing record returns None; else
\* status and attempts are written and committed and the item is returned;
\* an error of the store is logged and returns None
DqLoad(c, outcome) ==
    /\ dq[c].pc = "load"
    /\ LET queue_id == dq[c].entry[3]
       IN IF ~HasRow(queue_id) \/ outcome = "raise"
          THEN /\ q' = q
               /\ dq' = [dq EXCEPT ![c] = [DequeueIdle EXCEPT !.ret = 0]]
               /\ dqhist' = [dqhist EXCEPT !.dropped = @ \cup {queue_id}]
          ELSE /\ q' = [q EXCEPT !.rows[queue_id].status = "processing",
                                 !.rows[queue_id].attempts = @ + 1]
               /\ dq' = [dq EXCEPT ![c] =
                           [DequeueIdle EXCEPT !.ret = queue_id]]
               /\ dqhist' = [dqhist EXCEPT
                               !.returned = @ \cup {queue_id},
                               !.twice = @ \/ queue_id \in dqhist.returned]
    /\ UNCHANGED <<now, qc, qret, outsideDequeue>>

\* the steps of dequeue_order caller c takes
DqStep(c) ==
    \/ DqCheck(c)
    \/ DqGet(c)
    \/ \E outcome \in StoreOutcomes : DqLoad(c, outcome)

\* two threads call dequeue_order
DequeueCallers == {1, NumCallers}

\* one thread enqueues while the others dequeue
NextDequeue ==
    \/ \E sale_id \in SaleIds, priority \in Priorities,
          outcome \in EnqueueOutcomes :
          EnqueueCommit(sale_id, priority, outcome)
    \/ EnqueuePut
    \/ \E c \in DequeueCallers : DqStep(c)

SpecDequeue == InitQueue /\ [][NextDequeue]_vars

\* the thread of every call in progress keeps running; nobody has to call
\* enqueue_order again
SpecDequeueFair ==
    /\ SpecDequeue
    /\ WF_vars(EnqueuePut)
    /\ \A c \in DequeueCallers : WF_vars(DqStep(c))

\* ------------------------------------- properties of the concurrent queue
\* C34: every dequeue_order call returns in the end, also when several
\* callers dequeue from a structure that holds fewer entries than there
\* are callers.
C34_DequeueReturns ==
    \A c \in DequeueCallers : dq[c].pc # "idle" ~> dq[c].pc = "idle"

\* the identifiers in the in-memory structure or in the hands of a caller
IdsInMemory == {e[3] : e \in q.priority_queue}
IdsTaken == {dq[c].entry[3] : c \in {d \in Callers : dq[d].pc = "load"}}
\* a step of dequeue_order that returns an item / returns None after it
\* removed an entry
DqReturnsItem(c) ==
    dq[c].pc = "load" /\ dq'[c].pc = "idle" /\ dq'[c].ret # 0
DqReturnsNone(c) ==
    dq[c].pc = "load" /\ dq'[c].pc = "idle" /\ dq'[c].ret = 0
\* enqueue_order ends where it creates the record
EnqueueFailStep == qc.pc = "idle" /\ qc'.pc = "idle" /\ qret' # qret

\* C35: at most once through the fast path.  An identifier is in the
\* in-memory structure at most once and only while no caller holds it and
\* it was neither returned nor dropped; no item is returned twice; the
\* structure never holds more than max_size entries; every step adds at
\* most one entry, for the record just created, and removes at most one.
C35_AtMostOnce ==
    /\ [](/\ ~dqhist.twice
          /\ Cardinality(q.priority_queue) <= q.max_size
          /\ Cardinality(IdsInMemory) = Cardinality(q.priority_queue)
          /\ IdsInMemory \cap (IdsTaken \cup dqhist.returned
                                \cup dqhist.dropped) = {}
          /\ \A c, d \in Callers :
                (c # d /\ dq[c].pc = "load" /\ dq[d].pc = "load") =>
                   dq[c].entry[3] # dq[d].entry[3])
    /\ [][/\ Cardinality(q'.priority_queue \ q.priority_queue) <= 1
          /\ Cardinality(q.priority_queue \ q'.priority_queue) <= 1
          /\ \A e \in q'.priority_queue \ q.priority_queue :
                qc.pc = "putting" /\ e[3] = qc.id
          /\ \A c \in Callers : DqReturnsItem(c) =>
                dq'[c].ret \notin dqhist.returned
       ]_vars

\* both callers have been handed an item, each its own
C35_Witness ==
    /\ Cardinality(dqhist.returned) = 2
    /\ \A c \in DequeueCallers : dq[c].ret # 0
    /\ dq[1].ret # dq[NumCallers].ret

\* C36: when the store fails while enqueue_order creates the record, the
\* call rolls back and returns (False, reason) without raising, and no
\* record and no in-memory entry is added.
C36_EnqueueFailureContained ==
    [][EnqueueFailStep =>
          /\ qret'.op = "enqueue"
          /\ ~qret'.ok
          /\ qret'.msg = "Failed to queue order"
          /\ q' = q
      ]_vars

\* C37: a dequeue_order call removes at most one entry; when it returns
\* None after removing one, the entry is not put back, the record keeps
\* its status, and no later call returns that item.
C37_DroppedEntryStaysOut ==
    /\ [](dqhist.dropped \cap (IdsInMemory \cup IdsTaken) = {})
    /\ [][/\ Cardinality(q.priority_queue \ q'.priority_queue) <= 1
          /\ \A c \in Callers :
                /\ q'.priority_queue # q.priority_queue /\ dq'[c] # dq[c] =>
                      dq[c].pc = "get" /\ dq'[c].pc = "load"
                /\ DqReturnsNone(c) =>
                      /\ q'.priority_queue = q.priority_queue
                      /\ q'.rows = q.rows
                      /\ dq[c].entry[3] \in dqhist'.dropped
                /\ DqReturnsItem(c) => dq'[c].ret \notin dqhist.dropped
       ]_vars

\* an entry was dropped, its record is still pending, and a later call
\* returned another item
C37_Witness ==
    \E id \in dqhist.dropped :
        /\ HasRow(id)
        /\ q.rows[id].status = "pending"
        /\ \E c \in DequeueCallers : dq[c].ret \notin {0, id}

\* ============================================ ThrottlingManager instances
\* config.get('max_rps', 100) and config.get('window_size', 1)
DefaultMaxRps == 100
DefaultWindow == 1

outsideLimiters == <<breakerVars, throttleVars, queueVars, concurrencyVars,
                     coordinatorVars, retryVars, mutexVars, dequeueVars,
                     runnerVars>>

\* the dicts the callers hold: empty, or with the key max_rps
InitLimiters ==
    /\ now = 0
    /\ BreakerAtRest
    /\ ThrottleAtRest
    /\ QueueAtRest
    /\ ConcurrencyAtRest
    /\ CoordinatorAtRest
    /\ RetryAtRest
    /\ MutexAtRest
    /\ DequeueAtRest
    /\ RunnerAtRest
    /\ \E configs \in [ConfigObjects ->
                         {EmptyConfig} \cup
                         [max_rps : 1..MaxRequests, shared : {0}]] :
          lim = [NoLimiters EXCEPT !.configs = configs]

\* bool(config) of a dict: it has a key
Truthy(config) == config.max_rps # 0 \/ config.shared # 0

\* __init__, lines 25-33: `config or {}` replaces None and an empty dict by
\* a new dict; max_rps and window_size are read; setdefault takes the
\* '_shared_state' of the dict, or stores a new one in it, and
\* request_times and lock are those of that shared state
ThrottlingManager_init(i, k) ==
    /\ ~lim.instances[i].built
    /\ LET given == lim.configs[k]
           kept == Truthy(given)
           config == IF kept THEN given ELSE EmptyConfig
           fresh == Len(lim.states) + 1
           state == IF config.shared # 0 THEN config.shared ELSE fresh
       IN lim' = [lim EXCEPT
            !.configs[k].shared = IF kept THEN state ELSE @,
            !.states = IF state = fresh THEN Append(@, <<>>) ELSE @,
            !.instances[i] =
                [built |-> TRUE, arg |-> k,
                 max_requests_per_second |->
                     IF config.max_rps # 0 THEN config.max_rps
                     ELSE DefaultMaxRps,
                 window_size |-> DefaultWindow,
                 request_times |-> state, lock |-> state]]
    /\ UNCHANGED <<now, outsideLimiters>>

\* execute, lines 35-58, of instance i: inside `with self.lock` the
\* timestamps outside the window are removed, and the request is admitted,
\* its timestamp appended, while fewer than max_requests_per_second remain
ThrottlingManager_execute(i) ==
    /\ lim.instances[i].built
    /\ Len(lim.admitted[i]) < MaxAdmissions
    /\ LET inst == lim.instances[i]
           kept == InWindow(lim.states[inst.request_times], now,
                            inst.window_size)
       IN IF Len(kept) < inst.max_requests_per_second
          THEN lim' = [lim EXCEPT
                         !.states[inst.request_times] = Append(kept, now),
                         !.admitted[i] = Append(@, now)]
          ELSE lim' = [lim EXCEPT !.states[inst.request_times] = kept]
    /\ UNCHANGED <<now, outsideLimiters>>

\* the clock while the instances are exercised
LimiterTick ==
    /\ now < MaxQueueTime
    /\ Tick

NextLimiters ==
    \/ LimiterTick
    \/ \E i \in LimiterIds, k \in ConfigObjects : ThrottlingManager_init(i, k)
    \/ \E i \in LimiterIds : ThrottlingManager_execute(i)

SpecLimiters == InitLimiters /\ [][NextLimiters]_vars

\* ------------------------------------------- properties of the instances
Built == {i \in LimiterIds : lim.instances[i].built}
\* the instances built from the dict instance i was built from
SameConfig(i) == {j \in Built : lim.instances[j].arg = lim.instances[i].arg}
\* admissions of instance i with a timestamp in the window that ends at t
AdmittedBy(i, t) ==
    Len(SelectSeq(lim.admitted[i],
                  LAMBDA a : a > t - lim.instances[i].window_size /\ a <= t))
RECURSIVE SumAdmittedBy(_, _)
SumAdmittedBy(I, t) ==
    IF I = {} THEN 0
    ELSE LET i == CHOOSE j \in I : TRUE
         IN AdmittedBy(i, t) + SumAdmittedBy(I \ {i}, t)

\* C39: instances built from the same configuration object share one
\* timestamp sequence and one mutex, and their admissions together never
\* exceed max_requests_per_second in any window; instances built from
\* distinct configuration objects share neither.
C39_SharedWindow ==
    \A i \in Built :
        /\ \A j \in SameConfig(i) :
              /\ lim.instances[j].request_times =
                    lim.instances[i].request_times
              /\ lim.instances[j].lock = lim.instances[i].lock
        /\ \A t \in 0..now :
              SumAdmittedBy(SameConfig(i), t) <=
                 lim.instances[i].max_requests_per_second
        /\ \A j \in Built \ SameConfig(i) :
              /\ lim.instances[j].request_times #
                    lim.instances[i].request_times
              /\ lim.instances[j].lock # lim.instances[i].lock

\* ============================================ PerformanceScenarioRunner
\* args.runs and args.concurrency of a concurrent run
RunCounts == 0..MaxRuns
Concurrencies == 2..MaxWorkers

outsideRunner == <<breakerVars, throttleVars, queueVars, concurrencyVars,
                   coordinatorVars, retryVars, mutexVars, dequeueVars,
                   limiterVars>>

\* math.ceil(runs / concurrency) of two integers, concurrency > 0
Ceil(runs, concurrency) == (runs + concurrency - 1) \div concurrency
Max(a, b) == IF a >= b THEN a ELSE b
Min(a, b) == IF a <= b THEN a ELSE b

\* the share of a worker, rounded down
PerWorker_Floor(runs, concurrency) == Max(1, runs \div concurrency)

\* line 141: per_worker = max(1, math.ceil(runs / concurrency))
PerWorker(runs, concurrency) == Max(1, Ceil(runs, concurrency))

\* run() has chosen _run_concurrent: concurrency > 1
InitRunner ==
    /\ now = 0
    /\ BreakerAtRest
    /\ ThrottleAtRest
    /\ QueueAtRest
    /\ ConcurrencyAtRest
    /\ CoordinatorAtRest
    /\ RetryAtRest
    /\ MutexAtRest
    /\ DequeueAtRest
    /\ LimitersAtRest
    /\ \E runs \in RunCounts, concurrency \in Concurrencies :
          lr = [RunnerIdle EXCEPT !.pc = "start", !.runs = runs,
                                  !.concurrency = concurrency]

\* lines 140-143: per_worker, remaining and the empty worker_specs
RunnerStart ==
    /\ lr.pc = "start"
    /\ lr' = [lr EXCEPT !.pc = "loop",
                        !.per_worker = PerWorker(lr.runs, lr.concurrency),
                        !.remaining = lr.runs,
                        !.worker_id = 1,
                        !.worker_specs = <<>>]
    /\ UNCHANGED <<now, outsideRunner>>

\* lines 144-149: one pass of the loop over range(1, concurrency + 1); the
\* loop ends at the first worker that would get no run
RunnerAssign ==
    /\ lr.pc = "loop"
    /\ LET worker_runs == Min(lr.per_worker, lr.remaining)
       IN IF lr.worker_id > lr.concurrency \/ worker_runs <= 0
          THEN lr' = [lr EXCEPT !.pc = "submit"]
          ELSE lr' = [lr EXCEPT
                        !.worker_specs = Append(@, <<lr.worker_id,
                                                     worker_runs>>),
                        !.remaining = @ - worker_runs,
                        !.worker_id = @ + 1]
    /\ UNCHANGED <<now, outsideRunner>>

\* lines 151-169: nothing to do without a worker; else one worker is
\* started for each entry of worker_specs
RunnerSubmit ==
    /\ lr.pc = "submit"
    /\ lr' = [lr EXCEPT !.pc = IF lr.worker_specs = <<>> THEN "returned"
                               ELSE "workers"]
    /\ UNCHANGED <<now, outsideRunner>>

NextRunner ==
    \/ RunnerStart
    \/ RunnerAssign
    \/ RunnerSubmit

SpecRunner == InitRunner /\ [][NextRunner]_vars

\* ------------------------------------------ properties of the load runner
RECURSIVE SumRuns(_)
SumRuns(specs) ==
    IF specs = <<>> THEN 0 ELSE Head(specs)[2] + SumRuns(Tail(specs))

\* C40: for runs >= 0 and concurrency >= 2 the concurrent mode starts at
\* most concurrency workers, each with between 1 and
\* ceil(runs / concurrency) runs, the runs of the workers sum to runs, and
\* no worker is started when runs is 0.
C40_ExactPartition ==
    lr.pc \in {"workers", "returned"} =>
          /\ Len(lr.worker_specs) <= lr.concurrency
          /\ \A n \in 1..Len(lr.worker_specs) :
                /\ lr.worker_specs[n][1] = n
                /\ lr.worker_specs[n][2] >= 1
                /\ lr.worker_specs[n][2] <= Ceil(lr.runs, lr.concurrency)
          /\ SumRuns(lr.worker_specs) = lr.runs
          /\ lr.worker_specs = <<>> <=> lr.runs = 0
          /\ lr.pc = "returned" <=> lr.runs = 0

\* runs that do not divide evenly: the last worker gets fewer
C40_Witness ==
    /\ lr.pc = "workers"
    /\ Len(lr.worker_specs) >= 2
    /\ lr.worker_specs[Len(lr.worker_specs)][2] < lr.worker_specs[1][2]
    /\ Len(lr.worker_specs) < lr.concurrency

\* ===================================================== mutexes of the core
\* execute_with_lock with `with self.lock` as steps of their own, and
\* guarded operations that call ThrottlingManager.execute or
\* execute_with_lock themselves.  Call c is made by a thread of its own
\* (parent 0) or from the guarded operation of call 1.
Nestings ==
    {[c \in Callers |-> 0],
     [c \in Callers |-> IF c = NumCallers THEN 1 ELSE 0]}

InitMutex ==
    /\ now = 0
    /\ BreakerAtRest
    /\ QueueAtRest
    /\ CoordinatorAtRest
    /\ RetryAtRest
    /\ DequeueAtRest
    /\ LimitersAtRest
    /\ RunnerAtRest
    /\ \E max_rps \in 1..MaxRequests : rl = NewLimiter(max_rps, 1)
    /\ rlc = [c \in Callers |-> ThrottleIdle]
    /\ rlret = NoThrottleReturn
    /\ rlhist = NoAdmissions
    /\ \E max_concurrent \in 1..MaxConcurrent, is_postgresql \in BOOLEAN :
          cm = NewConcurrency(max_concurrent, is_postgresql)
    /\ cmc = [c \in Callers |-> ConcurrencyIdle]
    /\ cmret = NoConcurrencyReturn
    /\ \E parent \in Nestings : mx = [lock |-> 0, parent |-> parent]

\* the calls in progress that the guarded operation of call c made
Children(c) == {d \in Callers : mx.parent[d] = c /\ cmc[d].pc # "idle"}

\* the guarded operation of call c is executing its own code
OperationRuns(c) ==
    /\ cmc[c].pc = "running"
    /\ rlc[c].pc = "idle"
    /\ Children(c) = {}

\* execute_with_lock is called, by a thread or by the operation of the
\* parent call, and reaches `with self.lock` of line 207
MxCall(c) ==
    /\ cmc[c].pc = "idle"
    /\ mx.parent[c] # 0 => OperationRuns(mx.parent[c])
    /\ cmc' = [cmc EXCEPT ![c] = [ConcurrencyIdle EXCEPT !.pc = "enter"]]
    /\ UNCHANGED <<now, cm, cmret, mx, dequeueVars, limiterVars, runnerVars,
                   breakerVars, throttleVars, queueVars, coordinatorVars,
                   retryVars>>

\* lines 207 and 242: threading.Lock is acquired once it is free
MxAcquire(c) ==
    /\ cmc[c].pc \in {"enter", "release"}
    /\ mx.lock = 0
    /\ mx' = [mx EXCEPT !.lock = c]
    /\ cmc' = [cmc EXCEPT ![c].pc = IF @ = "enter" THEN "admit"
                                    ELSE "finally"]
    /\ UNCHANGED <<now, cm, cmret, dequeueVars, limiterVars, runnerVars,
                   breakerVars, throttleVars, queueVars, coordinatorVars,
                   retryVars>>

\* execute_with_lock whose with-block encloses the guarded operation
MxAdmit_HoldsLock(c) ==
    /\ cmc[c].pc = "admit"
    /\ IF cm.active_operations >= cm.max_concurrent
       THEN /\ cm' = cm
            /\ cmc' = [cmc EXCEPT ![c] = ConcurrencyIdle]
            /\ cmret' = [NoConcurrencyReturn EXCEPT !.caller = c,
                                                    !.val = LimitReached]
            /\ mx' = [mx EXCEPT !.lock = 0]
       ELSE /\ cm' = [cm EXCEPT !.active_operations = @ + 1]
            /\ cmc' = [cmc EXCEPT ![c].pc = "hint"]
            /\ cmret' = cmret
            /\ mx' = mx
    /\ UNCHANGED <<now, dequeueVars, limiterVars, runnerVars,
                   breakerVars, throttleVars, queueVars, coordinatorVars,
                   retryVars>>

\* lines 208-210, inside the with-block: reject at the limit, else take a
\* slot; leaving the block releases the lock either way
MxAdmit(c) ==
    /\ cmc[c].pc = "admit"
    /\ IF cm.active_operations >= cm.max_concurrent
       THEN /\ cm' = cm
            /\ cmc' = [cmc EXCEPT ![c] = ConcurrencyIdle]
            /\ cmret' = [NoConcurrencyReturn EXCEPT !.caller = c,
                                                    !.val = LimitReached]
       ELSE /\ cm' = [cm EXCEPT !.active_operations = @ + 1]
            /\ cmc' = [cmc EXCEPT ![c].pc = "hint"]
            /\ cmret' = cmret
    /\ mx' = [mx EXCEPT !.lock = 0]
    /\ UNCHANGED <<now, dequeueVars, limiterVars, runnerVars,
                   breakerVars, throttleVars, queueVars, coordinatorVars,
                   retryVars>>

\* line 224: the guarded operation returns or raises, once the calls it
\* made have returned
MxRun(c, outcome) ==
    /\ OperationRuns(c)
    /\ CmRun(c, outcome)

\* the guarded operation of call c calls ThrottlingManager.execute
MxThrottleEnter(c) ==
    /\ OperationRuns(c)
    /\ ThrottleEnter(c)

\* lines 242-247, inside the with-block of the finally clause: the slot is
\* given back, the lock released, and the call returns
MxRelease(c) ==
    /\ cmc[c].pc = "finally"
    /\ cm' = [cm EXCEPT !.active_operations = @ - 1]
    /\ cmret' = [caller |-> c, ok |-> cmc[c].err = "",
                 val |-> IF cmc[c].err = "" THEN "result" ELSE cmc[c].err,
                 op |-> cmc[c].op, commits |-> cmc[c].commits,
                 rollbacks |-> cmc[c].rollbacks]
    /\ cmc' = [cmc EXCEPT ![c] = ConcurrencyIdle]
    /\ mx' = [mx EXCEPT !.lock = 0]
    /\ UNCHANGED <<now, dequeueVars, limiterVars, runnerVars,
                   breakerVars, throttleVars, queueVars, coordinatorVars,
                   retryVars>>

\* the steps of call c once it is made
MxStep(c) ==
    \/ MxAcquire(c)
    \/ MxAdmit(c)
    \/ \E outcome \in GuardedOutcomes : CmHint(c, outcome)
    \/ \E outcome \in GuardedOutcomes : MxRun(c, outcome)
    \/ MxThrottleEnter(c)
    \/ ThrottlePrune(c)
    \/ ThrottleCheck(c)
    \/ ThrottleReturn(c)
    \/ \E outcome \in GuardedOutcomes : CmCommit(c, outcome)
    \/ \E outcome \in GuardedOutcomes : CmRollback(c, outcome)
    \/ MxRelease(c)

\* two calls are made: call 1 by a thread, and the last call by another
\* thread or from the guarded operation of call 1
MutexCalls == {1, NumCallers}

NextMutex ==
    \/ \E c \in MutexCalls : MxCall(c)
    \/ \E c \in MutexCalls : MxStep(c)

SpecMutex == InitMutex /\ [][NextMutex]_vars

\* ---------------------------------------------- properties of the mutexes
\* the thread that executes call c
ThreadOf(c) == IF mx.parent[c] = 0 THEN c ELSE mx.parent[c]
\* the component mutexes the thread of call c holds
MutexesHeld(c) ==
    {m \in {"concurrency", "throttling"} :
        \E d \in Callers :
            /\ ThreadOf(d) = ThreadOf(c)
            /\ \/ m = "concurrency" /\ mx.lock = d
               \/ m = "throttling" /\ rl.lock = d}

\* C31: no thread holds more than one component mutex at a time; the rate
\* limiter's mutex is free of a caller whose call has returned; the
\* concurrency limiter's mutex is held only inside the check-and-increment
\* and inside the decrement, never while the guarded operation runs; and a
\* call that waits for the concurrency limiter's mutex, also one made from
\* a guarded operation, finds it free or held by a call that can take its
\* next step without any mutex: there is no deadlock.
C31_OneMutexAtATime ==
    \A c \in Callers :
        /\ Cardinality(MutexesHeld(c)) <= 1
        /\ rlc[c].pc = "idle" => rl.lock # c
        /\ mx.lock = c <=> cmc[c].pc \in {"admit", "finally"}
        /\ cmc[c].pc \in {"hint", "running", "commit", "rollback"} =>
              mx.lock # c
        /\ cmc[c].pc \in {"enter", "release"} =>
              \/ ENABLED MxAcquire(c)
              \/ /\ mx.lock # c
                 /\ mx.lock \in Callers
                 /\ ENABLED (MxAdmit(mx.lock) \/ MxRelease(mx.lock))

\* a call made from a guarded operation holds the mutex while the operation
\* of its parent, which was admitted by the rate limiter before, is running
C31_Witness ==
    \E c \in Callers :
        /\ mx.parent[c] # 0
        /\ cmc[c].pc = "admit"
        /\ mx.lock = c
        /\ cmc[mx.parent[c]].pc = "running"
        /\ rlret.caller = mx.parent[c]
        /\ rlret.ok
====
